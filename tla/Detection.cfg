SPECIFICATION Spec
CONSTANT
    Texts <- MCTexts
INVARIANTS
    TypeOK
    LuhnCatchesTypos
    NumbersMasked
    WordsMasked
    NerOnlyAdds
CHECK_DEADLOCK FALSE
