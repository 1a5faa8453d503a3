SPECIFICATION Spec
CONSTANTS
    ann = ann
    ann_mail = ann_mail
    bob = bob
    demo = demo
    demo_mail = demo_mail
    None = None
    Requests = {q1, q2, q3}
    OldIds = {first}
    OldRow <- MCOldRow
    Names = {ann, bob, demo}
    Emails = {ann_mail, demo_mail}
    DemoName = demo
    DemoEmail = demo_mail
    Ops = {"register", "ask"}
SYMMETRY RequestsSymmetry
INVARIANT
    AsksAreSilent
CHECK_DEADLOCK FALSE
