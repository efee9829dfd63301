--------------------------- MODULE MCAccountTokens ---------------------------
\* Two requests at a time; one address typed in two ways.
EXTENDS AccountTokens, TLC

MCEmails == {"a", "A"}
MCLower == "a" :> "a" @@ "A" :> "a"
RequestSymmetry == Permutations(Requests)
==============================================================================
