---------------------------- MODULE MCOAuthGrants ----------------------------
(* OAuthGrants for TLC: requests are interchangeable. *)
EXTENDS OAuthGrants, TLC

Symmetry == Permutations(Handler)
=============================================================================
