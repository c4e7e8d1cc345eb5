------------------------------ MODULE Objects ------------------------------
(***************************************************************************)
(* Objects as tuples with named members, and the object that carries the   *)
(* parameters of a request down a chain of bindings.  Each binding builds  *)
(* an object of a larger type, copies what the types have in common, and   *)
(* sets the parameters of its own pattern.  A type may hold a key more     *)
(* than once, as when two bindings of a chain use the same name.           *)
(***************************************************************************)
EXTENDS MetaLists, SequencesExt

CONSTANTS
  Keys,      \* parameter names, as numbers in the order of their texts
  MaxParams, \* bound: parameters in one pattern
  MaxDepth,  \* bound: bindings in a chain
  MaxMembers \* bound: parameters in a chain

ASSUME ParamsAssumption ==
  Keys \subseteq Nat /\ {MaxParams, MaxDepth, MaxMembers} \subseteq Nat

VARIABLES
  type,     \* member_list of the parameters' type, in the order of sort_list
  values,   \* m_members, one for each
  chain     \* the parameters of the bindings passed, pattern by pattern

objects == <<type, values, chain>>

\* A captured text is named by the binding and the position of its parameter.
Default == <<0, 0>>

Members(keys) == [i \in DOMAIN keys |-> [key |-> keys[i]]]

ObjectsInit == type = <<>> /\ values = <<>> /\ chain = <<>>

-----------------------------------------------------------------------------

\* get<key>() of an object.
GetFrom(t, v, key) == v[IndexOf(key, t)]

\* set<key>(x)
SetIn(t, v, key, x) == [v EXCEPT ![IndexOf(key, t)] = x]

\* set<key>(x[key]) for each member of l, one after another.
SetEach(t, v, l, x) == FoldLeft(LAMBDA w, m : SetIn(t, w, m.key, x[m.key]), v, l)

KeysOf(l) == {m.key : m \in Range(l)}

Converted_ByPosition(to, t, v) ==
  [i \in DOMAIN to |-> IF i \in DOMAIN v THEN v[i] ELSE Default]

\* The object of type "to" made from an object of type t: the common keys are
\* copied, and the others keep their default.
Converted(to, t, v) ==
  IF to = t THEN v
  ELSE SetEach(to, [i \in DOMAIN to |-> Default], Intersection(to, t),
               [k \in KeysOf(t) |-> GetFrom(t, v, k)])

\* object_and<params_type, ParamsObjectT>
CombinedType(t, parsed) == SortList(t \o parsed)

\* get_by_name finds the first group of the expression with that name.
Captured(keys, key) == <<Len(chain) + 1, Min({i \in DOMAIN keys : keys[i] = key})>>

\* binding::operator() whose pattern has these parameters, in this order.
Bind(keys) ==
  LET parsed   == SortList(Members(keys))
      combined == CombinedType(type, parsed)
  IN  /\ Len(chain) < MaxDepth /\ Len(combined) <= MaxMembers
      /\ chain' = Append(chain, keys)
      /\ type' = combined
      /\ values' = SetEach(combined, Converted(combined, type, values), parsed,
                           [k \in Range(keys) |-> Captured(keys, k)])

ObjectsNext == \E keys \in BoundedSeq(Keys, MaxParams) : Bind(keys)
ObjectsSpec == ObjectsInit /\ [][ObjectsNext]_objects

-----------------------------------------------------------------------------
(* Properties.                                                             *)

\* What a handler reads with get<key> is the first text the deepest binding with
\* that key captured for it, whatever was copied from object to object on the
\* way, and nothing captured is lost; of the members with one key the others,
\* which no get can reach, stay empty.
GetReadsLatest ==
  /\ \A i \in DOMAIN type : values[i] # Default <=> i = IndexOf(type[i].key, type)
  /\ \A k \in Keys :
      LET naming == {d \in DOMAIN chain : k \in Range(chain[d])}
          found  == IndexOf(k, type)
      IN  IF naming = {} THEN found = 0
          ELSE values[found] = <<Max(naming), SelectInSeq(chain[Max(naming)], LAMBDA n : n = k)>>

-----------------------------------------------------------------------------
(* The type lists, on the lists of the chain.                              *)

Ordered(l)  == \A i, j \in DOMAIN l : i < j => ~Less(l[j], l[i])
Times(k, l) == Cardinality({i \in DOMAIN l : l[i].key = k})

\* All the members declared, each with its place in the order of declaration.
Declared ==
  LET keys == FlattenSeq(chain) IN [i \in DOMAIN keys |-> [key |-> keys[i], from |-> i]]

\* sort_list loses and invents nothing, whatever the length of the halves; it
\* is not stable: elements with equal keys come out in the reverse of the order
\* they were declared in.  What is read does not depend on that, as set and get
\* both go by key (GetReadsLatest).
SortReversesTies ==
  LET sorted == SortList(Declared)
  IN  /\ Range(sorted) = Range(Declared) /\ Len(sorted) = Len(Declared)
      /\ \A i, j \in DOMAIN sorted : i < j =>
           \/ Less(sorted[i], sorted[j])
           \/ Eq(sorted[i], sorted[j]) /\ sorted[i].from > sorted[j].from

\* On sorted lists, with repeated keys too, the three set operations return
\* sorted lists that hold each key as often as the one or the other list does,
\* as both do, or as their counts differ: difference is symmetric.  Its symmetry
\* does no harm where it is used: subtracting one of the lists from their union
\* leaves the keys that only the other one has.
SetOperations ==
  Len(chain) = 2 =>
    LET a == SortList(Members(chain[1]))
        b == SortList(Members(chain[2]))
    IN  /\ \A l \in {Union(a, b), Intersection(a, b), Difference(a, b)} : Ordered(l)
        /\ \A k \in Keys :
             LET m == Times(k, a)
                 n == Times(k, b)
             IN  /\ Times(k, Union(a, b)) = Max({m, n})
                 /\ Times(k, Intersection(a, b)) = Min({m, n})
                 /\ Times(k, Difference(a, b)) = Max({m, n}) - Min({m, n})
                 /\ m <= 1 /\ n <= 1 =>
                      (Times(k, Difference(Union(a, b), b)) > 0 <=> m = 1 /\ n = 0)

=============================================================================
