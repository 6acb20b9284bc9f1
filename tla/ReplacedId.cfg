CONSTANTS
  h1 = h1  h2 = h2  h3 = h3
  d1 = d1  d2 = d2  d3 = d3  m1 = m1
  e1 = e1  e2 = e2  e3 = e3
  NoId = NoId
  Document = {d1, d2, d3}
  Adjustment = {d1}
  Handover = {m1}
  External = {e1, e2, e3}
  Confirmation <- TwoIds
  Handler = {h1, h2}
SPECIFICATION Spec
CHECK_DEADLOCK FALSE
SYMMETRY HandlerSymmetry
INVARIANT AnsweredStays
