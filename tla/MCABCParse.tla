----------------------------- MODULE MCABCParse -----------------------------
(***************************************************************************)
(* Instances of ABCParse for TLC: files with every kind of entry, the same *)
(* files cut off at every byte, and with any one byte overwritten.         *)
(***************************************************************************)
EXTENDS ABCParse

NoEntries == [t \in AllTables |-> <<>>] @@ [version |-> [minor |-> 16, major |-> 46]]

\* Every kind of constant, and methods with and without defaults and names.
Constants ==
    [NoEntries EXCEPT
       !.ints = << <<5>>, <<200, 1>> >>,
       !.doubles = << <<0, 0, 0, 0, 0, 0, 240, 63>> >>,
       !.strings = << <<65>>, <<>> >>,
       !.namespaces = << [kind |-> 8, name |-> 1] >>,
       !.namespaceSets = << <<1, 2>>, <<>> >>,
       !.multinames = << [kind |-> 7, ns |-> 1, name |-> 2], [kind |-> 16, name |-> 1],
                         [kind |-> 17], [kind |-> 9, name |-> 1, nsset |-> 2],
                         [kind |-> 28, nsset |-> 1],
                         [kind |-> 29, name |-> 1, params |-> <<2, 3>>] >>,
       !.methods = << [params |-> <<>>, returnType |-> 0, name |-> 1, flags |-> 0,
                       options |-> <<>>],
                      [params |-> << [type |-> 1, name |-> 2], [type |-> 3, name |-> 1] >>,
                       returnType |-> 2, name |-> 0, flags |-> 136,
                       options |-> << [val |-> 3, kind |-> 12] >>] >>,
       !.metadatas = << [name |-> 1, items |-> << [key |-> 1, val |-> 2] >>] >>]

TraitOf(name, kind, members, metadata) ==
    [name |-> name, kind |-> kind, data |-> members, metadata |-> metadata]

\* A class with every kind of trait, a script, and bodies with handlers.
Classes ==
    [NoEntries EXCEPT
       !.uints = << <<255, 255, 255, 255, 3>> >>,
       !.instances =
         << [name |-> 1, super |-> 2, flags |-> 9, protectedNS |-> 3,
             interfaces |-> <<4, 5>>, iinit |-> 2^29,
             traits |-> << TraitOf(1, 0, [slotID |-> 1, typeName |-> 2, vindex |-> 0], <<>>),
                           TraitOf(2, 70, [slotID |-> 1, typeName |-> 2, vindex |-> 3,
                                           vkind |-> 6], <<7>>),
                           TraitOf(3, 17, [dispID |-> 1, method |-> 2], <<>>) >>],
            [name |-> 1, super |-> 0, flags |-> 0, protectedNS |-> 0,
             interfaces |-> <<>>, iinit |-> 200, traits |-> <<>>] >>,
       !.classes = << [cinit |-> 1, traits |-> <<TraitOf(4, 5, [slotID |-> 1, functioni |-> 2], <<>>)>>],
                      [cinit |-> 2, traits |-> <<>>] >>,
       !.scripts = << [init |-> 1, traits |-> <<TraitOf(5, 4, [slotID |-> 1, classi |-> 1], <<>>)>>] >>,
       !.bodies = << [method |-> 1, maxStack |-> 2, localCount |-> 1, initScopeDepth |-> 0,
                      maxScopeDepth |-> 1, code |-> <<208, 71>>,
                      exceptions |-> << [from |-> 0, to |-> 1, target |-> 2, type |-> 3, name |-> 4] >>,
                      traits |-> <<>>],
                     [method |-> 0, maxStack |-> 0, localCount |-> 0, initScopeDepth |-> 0,
                      maxScopeDepth |-> 0, code |-> <<>>, exceptions |-> <<>>, traits |-> <<>>] >>]

\* The integer -1 has more than 30 bits.
Negative == [NoEntries EXCEPT !.ints = << <<255, 255, 255, 255, 15>> >>]

MCFiles == {NoEntries, Constants, Classes, Negative}

Whole == {Spelling(WriteFile(f, {})) : f \in MCFiles}
           \cup {Spelling(WriteFile(NoEntries, PoolTables))}
CutOff == UNION {{SubSeq(w, 1, n) : n \in 0..(Len(w) - 1)} : w \in Whole}
Overwritten == UNION {{[w EXCEPT ![i] = b] : i \in DOMAIN w, b \in {0, 1, 2, 9, 64, 128}} : w \in Whole}
Longer == {w \o <<0>> : w \in Whole}

MCInputs == Whole \cup CutOff \cup Overwritten \cup Longer

=============================================================================
