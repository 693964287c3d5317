\* One address, one plan, two invitations with two tokens each, two requests at a time.
SPECIFICATION Spec
CONSTANTS
    Users = {u1}
    Plans = {p1}
    Rights = {"rights"}
    Catalogue <- Drafts
    Asked = {"monthly", "none"}
    Window = 1
    MaxTime = 1
    MaxInvites = 2
    MaxToken = 2
    Slots = {s1, s2}
    None = None
INVARIANTS
    OneOpenProposal
    OneWorkspacePerAcceptance
    TrialOnce
    SelectableIsProposable
PROPERTIES
    LinksDieAtOnce
SYMMETRY Symmetry
CHECK_DEADLOCK FALSE
