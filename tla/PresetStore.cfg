CONSTANTS
    c1 = c1
    c2 = c2
    p1 = p1
    p2 = p2
    Client = {c1, c2}
    Id = {p1, p2}
    Label = {"core", "edge"}
    Body = {"old", "new"}
    Boot = Boot
    Nobody = Nobody
SPECIFICATION Spec
INVARIANTS FileWhole LabelsUnique
PROPERTIES ImplementsBook
