---------------------------- MODULE MCFileStore ----------------------------
EXTENDS FileStore, TLC

CONSTANTS r1, r2, s1, a, b

\* Three files of one space, of which the second is a multipart upload, and room
\* for two at a time.
MCSpaceOf == <<s1, s1, s1>>
MCSize == <<1, 2, 2>>
MCMultipart == {2}

Symmetry == Permutations({r1, r2})
=============================================================================
