SPECIFICATION Spec
CONSTANTS
    Cases <- MCCases
    Half = 8
INVARIANTS TypeOK JoinsAsSets GroupsAsClasses AnswersAsSQL OrderedWindow PanicsKnown
PROPERTIES NothingLost
