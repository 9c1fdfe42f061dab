-------------------------- MODULE MCDeviceInventory --------------------------
(* Instances of DeviceInventory for TLC. *)
EXTENDS DeviceInventory

Dev(key, v, verify) == [kind |-> "device", key |-> key, vars |-> v, verify |-> verify]
Bad(kind) == [kind |-> kind, key |-> "", vars |-> {}, verify |-> FALSE]

\* A list that repeats a key, another list sent without a stream, and one with a row that cannot be
\* parsed and a syntax error before the last row.
MCImports == {"repeats", "other", "cut"}
MCCsv == [i \in MCImports |->
    CASE i = "repeats" -> [header |-> TRUE, streams |-> TRUE, rows |-> <<Dev("a", {"x"}, TRUE), Dev("b", {}, TRUE), Dev("a", {}, FALSE)>>]
      [] i = "other"   -> [header |-> TRUE, streams |-> FALSE, rows |-> <<Dev("b", {"x"}, FALSE)>>]
      [] i = "cut"     -> [header |-> TRUE, streams |-> TRUE, rows |-> <<Bad("bad"), Bad("syntax"), Dev("a", {}, FALSE)>>]]

\* Both devices with the canary verified, and the canary alone with a variable
\* only its profile can give.
MCRuns == {"all", "alone"}
MCRequest == [r \in MCRuns |->
    [wellFormed |-> TRUE, keys |-> <<"b", "a">>, canary |-> "b", needs |-> {"x"}, verify |-> "profile",
     scope |-> IF r = "alone" THEN "canary" ELSE "all",
     globals |-> IF r = "all" THEN {"x"} ELSE {},
     verifyMode |-> IF r = "all" THEN "canary" ELSE "all"]]
=============================================================================
