------------------------------ MODULE MCNdnBx ------------------------------
EXTENDS NdnBx

\* DTAG numbers of three elements, and a selector the dictionary lacks.
MCDict == [ContentObject |-> 2, Name |-> 3, Content |-> 1]
MCSelectors == {"Content", "Name", "Bogus"}

\* <ContentObject><Name/><Content>BLOB(2)</Content></ContentObject>, whose
\* first header takes two bytes.
CO == <<Hdr("DTAG", 2, TRUE), Hdr("DTAG", 2, FALSE), Hdr("DTAG", 3, FALSE),
        Close, Hdr("DTAG", 1, FALSE), Hdr("BLOB", 2, FALSE), Pay(1), Pay(2),
        Close, Close>>
\* <Content><Name/>UDATA(1)</Content>: the selection at offset 0, a child
\* before the data.
CN == <<Hdr("DTAG", 1, FALSE), Hdr("DTAG", 3, FALSE), Close,
        Hdr("UDATA", 1, FALSE), Pay(3), Close>>
\* CO cut inside the payload, and a file that starts with a CLOSE.
MCFiles == {CO, CN, SubSeq(CO, 1, 7), <<Close>>}
====
