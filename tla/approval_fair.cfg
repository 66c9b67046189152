CONSTANTS
  Actions = {a1}
  RefCodes = {c1}
  Drafts = {d1, d2, d3}
  Handlers = {h1, h2}
  NoDraft = NoDraft
  NoAction = NoAction
  Sendable = {"live"}
  Faults = {"refuse", "lost", "timeout", "unsaid"}
SPECIFICATION FairSpec
INVARIANTS
  OneDraftEverywhere
PROPERTIES
  SendSettles
