-------------------------------- MODULE MCMvc -------------------------------
\* Four controllers and a page without one.
EXTENDS Mvc, TLC

CONSTANTS a, b, c, e, page, d

MCUrls == {a, b, c, e, page}
MCControllers == {a, b, c, e}

\* a may lead to b and c, b to c, and c and e to each other and to the page; each to
\* itself.
Chain ==
  (a :> {a, b, c}) @@ (b :> {b, c}) @@ (c :> {c, e, page}) @@ (e :> {c, e, page})
=============================================================================
