------------------------ MODULE MCCapturePipeline -------------------------
\* A page, the same page with an animation (another image, the same text), a
\* blocked application, a new tab, and two pages kept by URL, one with a title
\* the final privacy check does not let through.
EXTENDS CapturePipeline
App   == [s \in Screens |-> IF s = "vault" THEN "vault" ELSE "browser"]
Image == [s \in Screens |-> CASE s = "page" -> 0 [] s = "animated" -> 5 [] OTHER -> 20]
Text  == [s \in Screens |-> CASE s \in {"page", "animated"} -> "a" [] s = "signin" -> "b"
                            [] OTHER -> "d"]
=============================================================================
