----------------------------- MODULE MCHierarchy -----------------------------
(* Three organizations, the root administrator and one more person, two     *)
(* transactions at once; the limit of one level is reached by every web    *)
(* handler and passed by the bot.                                          *)
EXTENDS Hierarchy, TLC

CONSTANTS root, p1, a, b, c

Alike == Permutations({a, b, c})
OneRole == {"reseller_admin"}
=============================================================================
