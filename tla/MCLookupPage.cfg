SPECIFICATION Spec
CONSTANTS
  ann = ann
  bob = bob
  text = text
  red = red
  blue = blue
  first = first
  second = second
  third = third
  Input <- MCInput
  WithoutAddress <- MCWithoutAddress
  Bearer <- MCBearer
  Call <- MCCall
  Nothing = Nothing
CHECK_DEADLOCK FALSE
INVARIANT CopiedLinkIsCurrent
