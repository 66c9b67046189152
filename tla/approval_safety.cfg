CONSTANTS
  Actions = {a1}
  RefCodes = {c1}
  Drafts = {d1, d2}
  Handlers = {h1, h2, h3}
  NoDraft = NoDraft
  NoAction = NoAction
  Sendable = {"live", "sent"}
  Faults = {"refuse", "timeout", "abort", "unsaid"}
SPECIFICATION Spec
SYMMETRY Symmetry
INVARIANTS
  TypeOK
  AtMostOneMail
  MailedStaysConfirmed
  OneSendAtATime
  OutcomesAreTrue
PROPERTIES
  ImplementsDecision
