------------------------- MODULE MCSubtestPatching -------------------------
EXTENDS SubtestPatching

CONSTANTS t1, t2

MCTests == {t1, t2}
NoTests == {}

\* t1: a grandchild fails, the second sub test fails and then skips.
\* t2: may skip at any point; its first sub test's two children
\* are parallel leaves, one skipping.
SeqFailAt == {<<t1, 1, 1>>, <<t1, 2>>}
SeqSkipAt == {<<t1, 2>>, <<t2>>, <<t2, 1, 2>>}
LeafParallelAt == {<<t2, 1, 1>>, <<t2, 1, 2>>}

\* Both sub tests of t1 are parallel; the first fails.
SubParallelAt == {<<t1, 1>>, <<t1, 2>>}
SubFailAt == {<<t1, 1>>}

=============================================================================
