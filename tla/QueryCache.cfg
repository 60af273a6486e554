CONSTANTS
    a = a
    b = b
    notA = notA
    call = call
    lemma = lemma
    post = post
    NoCond = NoCond
    Formulas <- MCFormulas
    Worlds <- MCWorlds
    Holds <- MCHolds
    HashOf <- MCHashOf
    MaxHash <- MCMaxHash
    Timeouts <- MCTimeouts
    Transforms <- MCTransforms
    Proofs <- MCProofs
SPECIFICATION Spec
INVARIANTS
    TypeOK
    AnswerSound
    CounterexampleReal
