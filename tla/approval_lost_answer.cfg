CONSTANTS
  Actions = {a1}
  RefCodes = {c1}
  Drafts = {d1, d2}
  Handlers = {h1, h2}
  NoDraft = NoDraft
  NoAction = NoAction
  Sendable = {"live"}
  Faults = {"lost"}
SPECIFICATION Spec
INVARIANTS
  MailedStaysConfirmed
