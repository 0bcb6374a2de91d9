-------------------------- MODULE MCModelDownload --------------------------
\* A pinned file of three blocks, a version of the same size, a longer one that
\* begins like the pinned one, and a shorter one.
EXTENDS ModelDownload
Model   == <<1, 2, 3>>
Files   == {Model, <<1, 4, 3>>, <<1, 2, 3, 5>>, <<1, 2>>}
Damaged == <<1, 2>>
=============================================================================
