------------------------------ MODULE MCRegistry ------------------------------
\* Constants of module DataTypeRegistry for TLC.
EXTENDS DataTypeRegistry

Definition(uri, id, fingerprint) ==
  [uri |-> uri, type |-> id, encoding |-> id + 10, fingerprint |-> fingerprint]

Provider(name, uri, deps, defs) ==
  [name |-> name, uri |-> uri, deps |-> deps, types |-> defs]

\* Four names in two namespaces: one with and without dependencies, a chain, a
\* cycle, a NodeId taken twice, and definitions that are never valid.
MCCatalogue ==
  { Provider(1, "u", <<3>>, <<Definition("u", 1, "f")>>),
    Provider(1, "u", <<>>, <<Definition("u", 1, "f"), Definition("u", 4, "f")>>),
    Provider(2, "u", <<>>, <<Definition("u", 2, "f")>>),
    Provider(2, "u", <<3, 1>>, <<Definition("u", 2, "f")>>),
    Provider(3, "v", <<>>, <<Definition("v", 3, "f")>>),
    Provider(3, "u", <<1>>, <<Definition("u", 1, "g")>>),
    Provider(3, "v", <<2>>, <<Definition("v", 3, "g"), Definition("v", 5, "g")>>),
    Provider(4, "v", <<>>, <<Definition("v", 6, "f")>>),
    Provider(3, "v", <<4>>, <<Definition("v", 3, "f")>>),
    Provider(2, "u", <<1, 1>>, <<Definition("u", 2, "f")>>),
    Provider(2, "u", <<2>>, <<Definition("u", 2, "f")>>),
    Provider(2, "u", <<>>, <<>>),
    Provider(2, "v", <<>>, <<Definition("u", 2, "f")>>) }

MCOwnTable == <<<<NamespaceZero, 0>>, <<"app", 1>>, <<"urn:orocos:rtt", 2>>>>
MCTables == { Append(MCOwnTable, <<"u", 3>>),
              Append(Append(MCOwnTable, <<"u", 3>>), <<"v", 4>>),
              Append(MCOwnTable, <<"app", 3>>),
              <<<<"u", 0>>, <<"urn:orocos:rtt", 1>>>> }
\* A builtin type and a custom one; the last has an encoding nobody registers.
MCProtocols == { [uri |-> NamespaceZero, type |-> 1, encoding |-> 0],
                 [uri |-> "u", type |-> 2, encoding |-> 12],
                 [uri |-> "u", type |-> 2, encoding |-> 13] }
===============================================================================
