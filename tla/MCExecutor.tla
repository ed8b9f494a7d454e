----------------------------- MODULE MCExecutor -----------------------------
(* Small instances of Executor.                                            *)
EXTENDS Executor

\* Two cases run in the opposite order of the list: a protocol test on two
\* handles, and a service test with two iterations.
OrderTwo == <<1, 0>>
IterationsTwo == <<1, 2>>
HandlesTwo == <<2, 1>>

\* A case no handle supports, and one that is not selected.
OrderFour == <<1, 0, 2, Unselected>>
IterationsFour == <<1, 2, 1, 1>>
HandlesFour == <<2, 1, 0, 1>>

\* What the tests record: a test may record one check twice, or a generic failure.
GuidsTwo == <<{"a"}, {"generic"}>>
GuidsFour == <<{"a"}, {"generic"}, {"a"}, {"a"}>>
OnceTwo == <<1, 1>>
TwiceFour == <<2, 1, 1, 1>>

NoFilterTwo == <<{}, {}>>
NoFilterFour == <<{}, {}, {}, {}>>

\* Everywhere but in ResetExecuteTestResults and between the end of a log
\* and the removal of the reset record.
CrashInInstance == {"mark", "locate", "loop", "open", "head", "check", "entry", "body",
                    "wrec", "hung", "term", "after", "tally", "final"}

\* Anywhere, the flush of TestCase.ini included.
CrashAnywhere == Places \cup {"flush"}

\* Two cases, the first on three handles of which the middle one is refused.
HandlesMiddle == <<3, 1>>
MiddleFiltered == <<{1}, {}>>
=============================================================================
