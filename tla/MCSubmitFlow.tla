----------------------------- MODULE MCSubmitFlow -----------------------------
EXTENDS SubmitFlow

CONSTANTS s1, s2, essay, student, pdf, size

\* The process ends once, or the upload expires.
MCOneScreen == {[crashes |-> 1, ticks |-> 0], [crashes |-> 0, ticks |-> 1]}
MCTwoScreens == {[crashes |-> 0, ticks |-> 0]}

MCSizeOf == [x \in {pdf} |-> size]
=============================================================================
