----------------------------- MODULE MCHarness -----------------------------
EXTENDS Harness, Guards

\* buy.gno, stakeindex.gno and testclock.gno, as f2, are broken by a control and by a row.
MCControls == <<LockCases, "f1", "f2">>
MCExcused  == <<"f2">>

Second == [Row EXCEPT !.label = "another defect", !.find = "twice", !.text = "other"]

\* One of each kind of row the guards and the runner tell apart.
Kinds ==
    {Row} \union
    {[Row EXCEPT !.pkg = p, !.objectors = o] :
        p \in {"curve", "nowhere"}, o \in {{}, {"kourtv2"}}} \union
    {[Row EXCEPT !.matches = n] : n \in {0, 2}} \union
    {[Row EXCEPT !.effect = e] :
        e \in {"no parse", "unused name", "type error", "goroutine", "lint hangs"}} \union
    {[Row EXCEPT !.hangs = {h}, !.objectors = o] :
        h \in {"twap", "kourtv2"}, o \in {{}, {"twap"}}} \union
    {[Row EXCEPT !.code = "gnoLintError", !.objectors = o] : o \in {{}, {"twap"}}} \union
    {[Row EXCEPT !.elsewhere = e, !.objectors = o] :
        e \in {"a.txtar", "g.py", "other.py"}, o \in {{}, {"twap"}}} \union
    {[Row EXCEPT !.shaped = FALSE], [Row EXCEPT !.file = "gone"],
     [Row EXCEPT !.replace = "once", !.text = "original", !.objectors = {}],
     [Row EXCEPT !.label = "another defect", !.text = "mutated", !.find = "around"]}

Third  == [Row EXCEPT !.label = "a third", !.find = "thrice", !.text = "third"]

\* With three rows one shard of the two has a row after its first.
MCBatches == {<<>>} \union {<<r>> : r \in Kinds} \union {<<r, Second>> : r \in Kinds}
                 \union {<<r, Second, Third>> : r \in {Row, [Row EXCEPT !.matches = 0]}}

MCBeside == {<<Row>>}
=============================================================================
