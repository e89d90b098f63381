SPECIFICATION Spec
INVARIANTS
    TypeOK
    AnswersFit
    OwnersAgree
