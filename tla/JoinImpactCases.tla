---------------------------- MODULE JoinImpactCases ----------------------------
(***************************************************************************)
(* The properties of JoinImpact over small inputs, evaluated by TLC with the  *)
(* run of PushFeed: a changed file, the index of a folder, that is imported   *)
(* by the folder's name, a class and a method that come, go or move as up to  *)
(* three kinds, and every choice of what two members import, call and read.   *)
(***************************************************************************)
EXTENDS JoinImpact, TLC

Cart == <<"cart">>
CartIndex == <<"cart", "index">>
Other == <<"other">>

Class == <<"A">>
Method == <<"A", "bar">>

\* As function or class before, as class or export after, there or on another line
IndexOf(names, line) == [name \in names |-> line]
Version == {[pre |-> [k \in Kind |-> IndexOf(IF k \in {1, 2} THEN before ELSE {}, 1)],
             post |-> [k \in Kind |-> IndexOf(IF k \in {2, 5} THEN after ELSE {}, line)]] :
            before, after \in SUBSET {Class, Method}, line \in {1, 2}}

Import(from, line) == [name |-> Class, from |-> from, line |-> line]
Calls == {[name |-> Method, line |-> 3], [name |-> <<"x", "A">>, line |-> 4]}

Reference == [imports : SUBSET {Import(Cart, 1), Import(Other, 2)},
              calls : {{}, Calls}, reads : {{}, {[name |-> Class, line |-> 5]}}]
OnlyImports == {r \in Reference : r.calls \cup r.reads = {}}

Input == [version : Version, first : Reference, second : OnlyImports]

JoinedRight(in) ==
    LET versions == (CartIndex :> in.version)
        references == ("m" :> (Other :> in.first) @@ "n" :> (Other :> in.second))
    IN  /\ AttributedByImport(versions, references)
        /\ ImportersAreTold(versions, references)
        /\ OnceWithEveryCaller(versions, references)

ASSUME JoinImpactCorrect == \A in \in Input : JoinedRight(in)
===============================================================================
