--------------------------- MODULE MCPublicationPlan ---------------------------
(* A component whose service graph has a chain of three, a cycle, names that  *)
(* are written alike, names that cannot be looked up and one listed twice.    *)
EXTENDS PublicationPlan

MCEntry(kind, name, child, supported, meta) ==
  [kind |-> kind, name |-> name, listed |-> 1, found |-> TRUE, child |-> child,
   supported |-> supported, meta |-> meta]

MCValue(kind, name, supported, meta) == MCEntry(kind, name, "root", supported, meta)
MCService(name, child) == MCEntry("services", name, child, TRUE, {})

m == MCValue("operations", "m", TRUE, {"rttOutputTypes", "rttOutputSources"})
unfitM == [m EXCEPT !.supported = FALSE]
f == MCValue("operations", "f", TRUE, {"rttInputTypes"})
noName == MCValue("properties", "", TRUE, {"rttType"})
nulName == MCValue("properties", "NUL", TRUE, {"rttType"})
unfit == MCValue("attributes", "u", FALSE, {"rttType"})
port == MCValue("ports", "p", TRUE, {"type", "direction", "description", "value"})
toA == MCService("services", "a")
toB == MCService("b", "b")
toC == MCService("c", "c")
toCTwice == [toC EXCEPT !.listed = 2]
toNull == [MCService("n", "root") EXCEPT !.found = FALSE]
toThis == MCService("this", "root")
lostPort == [port EXCEPT !.found = FALSE]

MCServices == {"root", "a", "b", "c"}
MCProvided ==
  [s \in MCServices |->
     CASE s = "root" -> {m, unfitM, f, noName, nulName, toA, toThis}
       [] s = "a" -> {port, lostPort, unfit, toB}
       [] s = "b" -> {f, toA, toC, toCTwice, toNull}
       [] s = "c" -> {f}]
MCEntries == UNION {MCProvided[s] : s \in MCServices}

MCPlain ==
  [s \in MCServices |->
     CASE s = "root" -> {m, f, noName, toA, toThis}
       [] s = "a" -> {port, toB}
       [] s = "b" -> {f}
       [] s = "c" -> {f}]
MCTangled == [MCPlain EXCEPT !["a"] = @ \cup {unfit}, !["b"] = {f, toA, toC}]
MCUnfitMandatory == [MCPlain EXCEPT !["root"] = (@ \ {m}) \cup {unfitM}]
MCRepeated == [MCPlain EXCEPT !["b"] = {f, toCTwice}]
MCUnavailable == [MCPlain EXCEPT !["a"] = {lostPort, toB}, !["b"] = {f, toNull}]
MCInitial == {MCPlain, MCTangled, MCUnfitMandatory, MCRepeated, MCUnavailable}

MCSelectors ==
  { <<"**">>, <<"operations", "f">>, <<"properties", "*">>, <<"properties", "%00">>,
    <<"services", "*", "**">>, <<"*", "*", "*", "*">>,
    <<"services", "services", "services", "b", "operations", "f">>,
    <<"services", "services", "services", "b", "services", "*">>,
    <<"operations", "g">>, <<"**", "f">>, <<"ports", "p*">>, <<"operations", "">>,
    <<>> }

===============================================================================
