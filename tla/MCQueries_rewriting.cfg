SPECIFICATION Spec
CONSTANTS
    paint = paint
    Paint = Paint
    cat = cat
    dog = dog
    ox = ox
    the = the
    OR = OR
    Words = {paint, Paint, cat, dog, ox, the, OR}
    Lower <- LowerCase
    StopWords = {the}
    Short = {ox}
    Long = {paint, Paint}
    OrWord = OR
    KeywordCap = 2
    MaxSymbols = 5
INVARIANTS
    ClosedQuotesSuffice
    SyntaxIsKept
    QuestionAsksForKeywords
CHECK_DEADLOCK FALSE
