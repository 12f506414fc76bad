------------------------------ MODULE MCSendme ------------------------------
EXTENDS Sendme
CONSTANTS s1, s2
TwoStreams == <<s1, s2>>
MoreOnOne == [s \in {s1, s2} |-> IF s = s1 THEN 5 ELSE 1]
=============================================================================
