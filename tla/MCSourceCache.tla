--------------------------- MODULE MCSourceCache ---------------------------
EXTENDS SourceCache

CONSTANTS c1, c2, c3, f1, f2

\* Functions of test files: a test of package "main" (runtime name
\* main.TestA), and one of a module whose import path has a dot
\* (example.com/p.TestA).
MainTargets == {[file |-> f1, pkg |-> <<"main">>, name |-> n] : n \in {"TestA", "TestB"}}
DottedTargets == {[file |-> f1, pkg |-> <<"example", "com/p">>, name |-> "TestA"]}
TwoFileTargets == {[file |-> f, pkg |-> <<"main">>, name |-> "TestA"] : f \in {f1, f2}}

OneFile == {f1}
TwoFiles == {f1, f2}
MCDecls == [f \in Files |-> {"TestA"}]
NoFile == {}
MCCallers2 == {c1, c2}
MCCallers3 == {c1, c2, c3}

=============================================================================
