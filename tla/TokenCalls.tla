----------------------------- MODULE TokenCalls -----------------------------
(***************************************************************************)
(* What the managers of random tokens have in common: threads whose calls  *)
(* are a few named steps, and tokens that are drawn once each.             *)
(***************************************************************************)
EXTENDS CallThreads, Naturals

CONSTANTS Tokens,   \* tokens GenerateRandomBase64 can draw, all different
          NoToken

VARIABLES
    arg,            \* per thread: what its call is about; pc is its next step
    drawnFor        \* history: whom or what a token was drawn for
=============================================================================
