-------------------------- MODULE TimeConversions --------------------------
(***************************************************************************)
(* A date and time format on its way through the dialects: format_time     *)
(* converts it from style to style, any number of times.  A format is      *)
(* known by its parts, components (numbers of Mappings) and literal text;  *)
(* what the code sees is their rendering in the style at hand.             *)
(***************************************************************************)
EXTENDS TimeFormats, SequencesExt, FiniteSets

CONSTANTS
    Formats,   \* the formats, sequences of <<"component", m>> and <<"literal", text>>
    Readable   \* the styles whose scanner knows the specifiers of the style

VARIABLES parts, style, text
vars == <<parts, style, text>>

PartIn(part, s) == IF part[1] = "component" THEN SpecIn(part[2], s) ELSE part[2]
Rendered(ps, s) == FoldLeft(LAMBDA acc, part : acc \o PartIn(part, s), "", ps)
Components(ps) == {ps[i][2] : i \in {j \in DOMAIN ps : ps[j][1] = "component"}}
\* A style says a component when it has a specifier of its own for it.
Says(s, m) == SpecIn(m, s) # "" /\ FirstMapping(SpecIn(m, s), s, Folds(s)) = m
Carries(s, ps) == \A m \in Components(ps) : Says(s, m)

Init ==
    /\ parts \in Formats
    /\ style \in {s \in Readable : Carries(s, parts)}
    /\ text = Rendered(parts, style)
\* format_time(text, style, target)
ConvertTo(target) ==
    /\ style \in Readable /\ target # style /\ Carries(target, parts)
    /\ text' = FormatTime(text, style, target)
    /\ style' = target
    /\ UNCHANGED parts
Next == \E target \in {Styles[i] : i \in DOMAIN Styles} : ConvertTo(target)
Spec == Init /\ [][Next]_vars

----------------------------------------------------------------------------
\* Whatever the way a format has taken through the styles, its text means the components
\* and the literals it began with: no specifier is taken for the beginning of a longer one,
\* for letters of its neighbours, or left as it was.
MeaningKept == text = Rendered(parts, style)

\* format_time_with_warnings warns of exactly the components the target has no specifier
\* for, wherever they stand and whatever percent signs stand before them.
WarnsOfLoss ==
    style \in Percent =>
        \A i \in DOMAIN Styles :
            Warned(text, style, Styles[i]) =
                {SpecIn(m, style) : m \in {n \in Components(parts) : SpecIn(n, Styles[i]) = ""}}

\* transform_format_expr does not know the style of the format it converts and guesses it:
\* the guess gives the text that the style would have given, for every format of numeric
\* components that holds the year, its month and day or the minutes, and no seconds without
\* minutes.
Numeric == {3, 6, 15, 17, 18}   \* month, day, hour, minute, second
Telling(ps) ==
    /\ 1 \in Components(ps) /\ Components(ps) \subseteq {1} \cup Numeric
    /\ {3, 6} \subseteq Components(ps) \/ 17 \in Components(ps)
    /\ 18 \in Components(ps) => 17 \in Components(ps)
GuessedRight ==
    Telling(parts) =>
        \A i \in DOMAIN Styles :
            Carries(Styles[i], parts) => FormatTime(text, DetectStyle(text), Styles[i]) = Rendered(parts, Styles[i])
=============================================================================
