SPECIFICATION Spec
CONSTANTS
  der_encoder <- MCEncoder
  ber_decoder <- MCDecoder
  Segments <- MCSegments
  Trailer <- MCTrailer
  Members <- MCMembers
  Items <- MCItems
  SkipContents <- MCSkipContents
  Meaning <- MCMeaning
  Chosen <- MCChosen
  Unchosen <- MCUnchosen
  Ber <- MCBer
  Types <- AllTypes
  PDUs <- MCPDUs
  Messages <- MCMessages
  Values <- MCValues
  Depth <- MCDepth
  Seeds = {0,1,2,3,4,5,6,7,8,9,10}
  Shapes = {0,1,2,4,10}
INVARIANTS EncodesDER RoundTrip Interoperates PartsRejected CopyFaithful
CHECK_DEADLOCK FALSE
