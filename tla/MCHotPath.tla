----------------------------- MODULE MCHotPath -----------------------------
(* Four slots, two of them usable, and three apps whose probes run into one *)
(* another around the end of the table; "Code" has the hash of "code".      *)
EXTENDS HotPath

MCApps == {"code", "Code", "firefox", "kate"}
MCHash ==
  [a \in MCApps |-> CASE a \in {"code", "Code"} -> 3
                      [] a = "firefox" -> 7
                      [] a = "kate"    -> 2]

Line(a, p, m, i) == [app |-> a, preset |-> p, mode |-> m, invert |-> i]

MCLines ==
  {Line("code", "none", Blank, Blank), Line("Code", "tab_nav", "high", "off"),
   Line("firefox", "tab_nav", Unknown, "on"), Line("kate", "tab_nav", Blank, Unknown),
   Line("kate", Unknown, "high", "on"), Line("code", Blank, "high", "on"),
   Line(NoApp, Blank, Blank, Blank)}

MCValues  == {-1, 1}
MCProfile == [m \in {"medium", "high"} |-> IF m = "medium" THEN "profile_medium" ELSE "profile_high"]
=============================================================================
