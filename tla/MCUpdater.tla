----------------------------- MODULE MCUpdater ------------------------------
(***************************************************************************)
(* Instances of Updater for TLC.                                            *)
(***************************************************************************)
EXTENDS Updater

CONSTANTS city, tor      \* a required and an optional source

MCSource == {city, tor}
MCRequired == {city}
MCOutdatedAfter == [i \in MCSource |-> 1]
MCEnabledSets == {{city}, {city, tor}}
MCRetryLadder == <<1, 2>>
MCStartAts == {1}

MCDeepOutdatedAfter == [i \in MCSource |-> 3]
MCDeepEnabledSets == {{tor}}

(* A start_at_utc that lies ahead of the first start: it passes the validation of the  *)
(* configuration.                                                            *)
MCFutureStartAts == {6}
=============================================================================
