--------------------------- MODULE VfsTreeProofs ---------------------------
(***************************************************************************)
(* The tree of the file system stays one tree with names that are unique   *)
(* in each directory, and keeps the working directory, for every number of *)
(* nodes, set of paths and set of names, provided that the names typed are *)
(* plain: no longer than a node's name and none the name of the base       *)
(* directory (PlainNames).  Without that it does not: two names that are   *)
(* cut to one make two nodes of one name, and a file named base becomes    *)
(* the working directory at the next start.                                *)
(*                                                                         *)
(* The invariant gives each node a depth, one more than its parent's: that *)
(* excludes cycles, bounds the way to the root by the number of nodes, and *)
(* is what a move of a whole subtree must and does restore.  A move takes  *)
(* the node out of its list, renames it, and puts it into another list; in *)
(* between the tree is whole but for that one node (Loose).                *)
(*                                                                         *)
(* The paths of a whole tree are there, each of one node, and those below  *)
(* a node begin with its path: by induction from the root to its children  *)
(* (DownTheTree).  So each command is one step of Namespace.               *)
(***************************************************************************)
EXTENDS VfsTree, FiniteSetTheorems, SequenceTheorems, WellFoundedInduction, TLAPS

-----------------------------------------------------------------------------
\* Whole trees.

\* The letters of names, with those that the model adds
Chars == STRING \cup {"_", "P", "r", "b"} \cup {Digits[i] : i \in 1..MaxNodes}

NodeRecord ==
  [type : {"dir", "file"}, name : Seq(Chars), parent : Int, children : Seq(Int),
   text : {"empty", "carved", "edited"}, learned : BOOLEAN]

Typed(t) ==
  /\ DOMAIN t \subseteq 0..MaxNodes /\ Root \in DOMAIN t
  /\ t \in [DOMAIN t -> NodeRecord]

GoodNode(node) ==
  /\ Len(node.name) \in 1..NameMax
  /\ node.learned => node.type = "file"
  /\ node.type = "file" => node.children = <<>> /\ node.name # BaseName

ChildrenKnow(t) ==
  \A n \in DOMAIN t : \A i \in 1..Len(t[n].children) :
    t[n].children[i] \in DOMAIN t /\ t[t[n].children[i]].parent = n

ListedOnce(t) == \A n \in DOMAIN t : IsInjective(t[n].children)

ParentKnows(t) ==
  /\ t[Root].parent = None
  /\ \A n \in DOMAIN t \ {Root} :
       t[n].parent \in DOMAIN t /\ Contains(t[t[n].parent].children, n)

Distinct(t) ==
  \A n, m \in DOMAIN t : t[n].parent = t[m].parent /\ t[n].name = t[m].name => n = m

\* d is the depth of each node.
IsDepth(t, d) ==
  /\ d \in [DOMAIN t -> Nat] /\ d[Root] = 0
  /\ \A n \in DOMAIN t \ {Root} : d[n] = d[t[n].parent] + 1

\* The tree t is whole, with depths d.
Good(t, d) ==
  /\ Typed(t) /\ \A n \in DOMAIN t : GoodNode(t[n])
  /\ ChildrenKnow(t) /\ ListedOnce(t) /\ ParentKnows(t)
  /\ Distinct(t)
  /\ IsDepth(t, d)

\* The names typed fit into a node, and none is the name of the base directory.
PlainNames == \A name \in Names : Len(name) \in 1..NameMax /\ name # BaseName

\* The working directory is a directory, and the other variables have their types.
RestInv ==
  /\ cwd \in Nodes /\ IsDir(cwd) /\ IsDir(Root)
  /\ asked = NotAsked \/ (asked[1] \in Names /\ asked[2] \in Targets)
  /\ casting \in Seq(Int) /\ Len(casting) <= ScriptDepth
  /\ kernel \in {"runs", "hung"} /\ restarts \in 0..MaxRestarts

-----------------------------------------------------------------------------
\* Numbers.

\* A set of numbers has a least one.
LEMMA LeastOfSome ==
  ASSUME NEW S \in SUBSET Nat, S # {}
  PROVE  \E n \in S : \A m \in S : n <= m
<1>1. PICK n \in S : \A m \in S : <<m, n>> \notin OpToRel(<, Nat)
  BY NatLessThanWellFounded, WFMin, Zenon
<1>2. \A m \in S : ~(m < n)
  BY <1>1 DEF OpToRel
<1> QED BY <1>2

\* From the least number that is not in S
LEMMA Induction ==
  ASSUME NEW S \in SUBSET Nat, 0 \in S, \A n \in S : n + 1 \in S
  PROVE  S = Nat
<1>1. SUFFICES ASSUME Nat \ S # {} PROVE FALSE
  OBVIOUS
<1>2. PICK n \in Nat \ S : \A m \in Nat \ S : n <= m
  BY <1>1, LeastOfSome
<1>3. n - 1 \in S
  BY <1>2
<1> QED BY <1>2, <1>3

\* The least number of a set
LEMMA MinIs ==
  ASSUME NEW S \in SUBSET Nat, S # {}
  PROVE  Min(S) \in S
BY LeastOfSome DEF Min

\* The greatest number of a bounded set
LEMMA MaxIs ==
  ASSUME NEW n \in Nat, NEW S \in SUBSET (1..n), S # {}
  PROVE  Max(S) \in S
<1> DEFINE T == {n - x : x \in S}
<1>1. T \in SUBSET Nat /\ T # {}
  <2>1. \A x \in S : x \in Nat /\ x <= n
    OBVIOUS
  <2>2. \A x \in S : n - x \in Nat
    BY <2>1
  <2> QED BY <2>2
<1>2. PICK t \in T : \A u \in T : t <= u
  BY <1>1, LeastOfSome
<1>3. PICK x \in S : t = n - x
  BY <1>2
<1>4. ASSUME NEW y \in S PROVE y <= x
  <2>1. n - x <= n - y
    BY <1>2, <1>3
  <2> QED BY <2>1
<1>5. \E z \in S : \A y \in S : z >= y
  BY <1>4
<1> QED BY <1>5 DEF Max

-----------------------------------------------------------------------------
\* Lists of children.

\* link_child: the new child is the first.
LEMMA Prepended ==
  ASSUME NEW S, NEW s \in Seq(S), NEW n \in S
  PROVE  /\ <<n>> \o s \in Seq(S) /\ Len(<<n>> \o s) = Len(s) + 1
         /\ (<<n>> \o s)[1] = n
         /\ \A i \in 1..Len(s) : (<<n>> \o s)[i + 1] = s[i]
  OBVIOUS

\* link_child: the list has the new child as well, and each once.
LEMMA ListedFirst ==
  ASSUME NEW S, NEW s \in Seq(S), NEW n \in S
  PROVE  /\ <<n>> \o s \in Seq(S)
         /\ \A x : Contains(<<n>> \o s, x) <=> Contains(s, x) \/ x = n
         /\ IsInjective(s) /\ ~Contains(s, n) => IsInjective(<<n>> \o s)
<1> DEFINE t == <<n>> \o s
<1>1. /\ t \in Seq(S) /\ Len(t) = Len(s) + 1 /\ t[1] = n
      /\ \A i \in 1..Len(s) : t[i + 1] = s[i]
  BY Prepended
<1>2. Len(s) \in Nat /\ DOMAIN s = 1..Len(s) /\ DOMAIN t = 1..Len(t)
  BY <1>1
<1> HIDE DEF t
<1>3. \A i \in 2..Len(t) : i - 1 \in 1..Len(s) /\ t[i] = s[i - 1]
  <2> TAKE i \in 2..Len(t)
  <2>1. i - 1 \in 1..Len(s) /\ (i - 1) + 1 = i
    BY <1>1, <1>2
  <2> QED BY <1>1, <2>1
<1>4. ASSUME NEW x PROVE Contains(t, x) <=> Contains(s, x) \/ x = n
  <2>1. ASSUME NEW i \in 1..Len(t), t[i] = x PROVE Contains(s, x) \/ x = n
    <3>1. i = 1 \/ i \in 2..Len(t)
      BY <1>1, <1>2
    <3> QED BY <1>1, <1>3, <2>1, <3>1 DEF Contains
  <2>2. ASSUME NEW i \in 1..Len(s), s[i] = x PROVE Contains(t, x)
    <3>1. i + 1 \in 1..Len(t) /\ t[i + 1] = x
      BY <1>1, <1>2, <2>2
    <3> QED BY <3>1 DEF Contains
  <2>3. 1 \in 1..Len(t)
    BY <1>1, <1>2
  <2> QED BY <1>1, <2>1, <2>2, <2>3 DEF Contains
<1>5. ASSUME IsInjective(s), ~Contains(s, n) PROVE IsInjective(t)
  <2> SUFFICES ASSUME NEW i \in 1..Len(t), NEW j \in 1..Len(t), t[i] = t[j] PROVE i = j
    BY <1>2 DEF IsInjective
  <2>1. (i = 1 \/ i \in 2..Len(t)) /\ (j = 1 \/ j \in 2..Len(t))
    BY <1>1, <1>2
  <2>2. \A k \in 2..Len(t) : t[k] # n
    BY <1>3, <1>5 DEF Contains
  <2>3. CASE i \in 2..Len(t) /\ j \in 2..Len(t)
    <3>1. i - 1 = j - 1
      BY <1>2, <1>3, <1>5, <2>3 DEF IsInjective
    <3> QED BY <2>3, <3>1
  <2> QED BY <1>1, <2>1, <2>2, <2>3
<1> QED BY <1>1, <1>4, <1>5 DEF t

\* Two sequences one after the other
LEMMA Appended ==
  ASSUME NEW S, NEW s \in Seq(S), NEW t \in Seq(S)
  PROVE  /\ s \o t \in Seq(S) /\ Len(s \o t) = Len(s) + Len(t)
         /\ \A i \in 1..Len(s) : (s \o t)[i] = s[i]
         /\ \A i \in 1..Len(t) : (s \o t)[Len(s) + i] = t[i]
<1>1. /\ Len(s) \in Nat /\ Len(t) \in Nat
      /\ s \o t \in Seq(S) /\ Len(s \o t) = Len(s) + Len(t)
      /\ \A i \in 1..Len(s) + Len(t) :
           (s \o t)[i] = IF i <= Len(s) THEN s[i] ELSE t[i - Len(s)]
  BY ConcatProperties
<1>2. ASSUME NEW i \in 1..Len(s) PROVE (s \o t)[i] = s[i]
  BY <1>1
<1>3. ASSUME NEW i \in 1..Len(t) PROVE (s \o t)[Len(s) + i] = t[i]
  <2>1. /\ Len(s) + i \in 1..Len(s) + Len(t) /\ ~(Len(s) + i <= Len(s))
        /\ (Len(s) + i) - Len(s) = i
    BY <1>1
  <2> QED BY <1>1, <2>1
<1> QED BY <1>1, <1>2, <1>3

\* remove_child: the others stay
LEMMA Taken ==
  ASSUME NEW S, NEW s \in Seq(S), NEW i \in 1..Len(s)
  PROVE  /\ RemoveAt(s, i) \in Seq(S) /\ Len(RemoveAt(s, i)) = Len(s) - 1
         /\ \A j \in 1..Len(s) - 1 :
              /\ j < i => RemoveAt(s, i)[j] = s[j]
              /\ j >= i => RemoveAt(s, i)[j] = s[j + 1]
<1> DEFINE a == SubSeq(s, 1, i - 1)
           b == SubSeq(s, i + 1, Len(s))
<1>1. Len(s) \in Nat /\ i \in Nat /\ 1 <= i /\ i <= Len(s)
  OBVIOUS
<1>2. /\ a \in Seq(S) /\ Len(a) = i - 1
      /\ \A j \in 1..i - 1 : a[j] = s[j]
  <2>1. \A j \in 1..i - 1 : s[j] \in S
    BY <1>1
  <2> QED BY <1>1, <2>1
<1>3. /\ b \in Seq(S) /\ Len(b) = Len(s) - i
      /\ \A j \in 1..Len(s) - i : b[j] = s[i + j]
  <2>1. \A j \in i + 1..Len(s) : s[j] \in S
    BY <1>1
  <2> QED BY <1>1, <2>1
<1> HIDE DEF a, b
<1>4. /\ a \o b \in Seq(S) /\ Len(a \o b) = Len(a) + Len(b)
      /\ \A j \in 1..Len(a) : (a \o b)[j] = a[j]
      /\ \A j \in 1..Len(b) : (a \o b)[Len(a) + j] = b[j]
  <2>1. a \in Seq(S) /\ b \in Seq(S)
    BY <1>2, <1>3
  <2>2. \A u, v \in Seq(S) :
          /\ u \o v \in Seq(S) /\ Len(u \o v) = Len(u) + Len(v)
          /\ \A j \in 1..Len(u) : (u \o v)[j] = u[j]
          /\ \A j \in 1..Len(v) : (u \o v)[Len(u) + j] = v[j]
    BY Appended
  <2> QED BY <2>1, <2>2
<1>5. RemoveAt(s, i) = a \o b
  BY DEF RemoveAt, a, b
<1>6. ASSUME NEW j \in 1..Len(s) - 1
      PROVE  /\ j < i => (a \o b)[j] = s[j]
             /\ j >= i => (a \o b)[j] = s[j + 1]
  <2>1. CASE j < i
    BY <1>1, <1>2, <1>4, <2>1
  <2>2. CASE j >= i
    <3>1. /\ j - (i - 1) \in 1..Len(b) /\ j - (i - 1) \in 1..Len(s) - i
          /\ Len(a) + (j - (i - 1)) = j /\ i + (j - (i - 1)) = j + 1
      BY <1>1, <1>2, <1>3, <2>2
    <3>2. (a \o b)[j] = b[j - (i - 1)] /\ b[j - (i - 1)] = s[j + 1]
      BY <1>3, <1>4, <3>1
    <3> QED BY <2>2, <3>2
  <2> QED BY <1>1, <2>1, <2>2
<1> HIDE DEF a, b
<1>7. Len(a \o b) = Len(s) - 1
  BY <1>1, <1>2, <1>3, <1>4
<1> QED BY <1>4, <1>5, <1>6, <1>7

\* remove_child: the list is without e, and has each of the others once.
LEMMA Removed ==
  ASSUME NEW S, NEW s \in Seq(S), IsInjective(s), NEW e, Contains(s, e)
  PROVE  /\ RemoveFirst(s, e) \in Seq(S) /\ IsInjective(RemoveFirst(s, e))
         /\ \A x : Contains(RemoveFirst(s, e), x) <=> Contains(s, x) /\ x # e
<1> DEFINE I == {i \in 1..Len(s) : s[i] = e}
           k == Min(I)
           t == RemoveAt(s, k)
<1>1. I # {} /\ I \in SUBSET Nat /\ Len(s) \in Nat
  BY DEF Contains
<1>2. k \in 1..Len(s) /\ s[k] = e
  <2> HIDE DEF I
  <2>1. k \in I
    BY <1>1, MinIs
  <2> QED BY <2>1 DEF I
<1>3. RemoveFirst(s, e) = t
  BY <1>1 DEF RemoveFirst, SelectInSeq, Contains
<1> HIDE DEF k, I
<1>4. /\ t \in Seq(S) /\ Len(t) = Len(s) - 1
      /\ \A j \in 1..Len(s) - 1 :
           /\ j < k => t[j] = s[j]
           /\ j >= k => t[j] = s[j + 1]
  BY <1>2, Taken
<1> DEFINE pos(j) == IF j < k THEN j ELSE j + 1
<1> HIDE DEF t
<1>5. \A i, j \in 1..Len(s) : s[i] = s[j] => i = j
  BY DEF IsInjective
<1>6. ASSUME NEW j \in 1..Len(t)
      PROVE  pos(j) \in 1..Len(s) /\ pos(j) # k /\ t[j] = s[pos(j)]
  <2>1. j \in 1..Len(s) - 1 /\ j + 1 \in 1..Len(s) /\ j \in 1..Len(s)
    BY <1>1, <1>4
  <2> QED BY <1>2, <1>4, <2>1
<1>7. ASSUME NEW x PROVE Contains(t, x) <=> Contains(s, x) /\ x # e
  <2>1. ASSUME NEW i \in 1..Len(t), t[i] = x PROVE Contains(s, x) /\ x # e
    <3> HIDE DEF pos
    <3>1. pos(i) \in 1..Len(s) /\ pos(i) # k /\ s[pos(i)] = x
      BY <1>6, <2>1
    <3> QED BY <1>2, <1>5, <3>1 DEF Contains
  <2>2. ASSUME NEW i \in 1..Len(s), s[i] = x, x # e PROVE Contains(t, x)
    <3>1. i # k
      BY <1>2, <2>2
    <3>2. CASE i < k
      <4>1. i \in 1..Len(t) /\ i \in 1..Len(s) - 1
        BY <1>1, <1>2, <1>4, <3>2
      <4>2. t[i] = x
        BY <1>4, <2>2, <3>2, <4>1
      <4> QED BY <4>1, <4>2 DEF Contains
    <3>3. CASE i > k
      <4>1. i - 1 \in 1..Len(s) - 1 /\ i - 1 >= k /\ (i - 1) + 1 = i
        BY <1>1, <1>2, <3>3
      <4>2. i - 1 \in 1..Len(t) /\ t[i - 1] = x
        BY <1>4, <2>2, <4>1
      <4> QED BY <4>2 DEF Contains
    <3> QED BY <1>2, <3>1, <3>2, <3>3
  <2> QED BY <2>1, <2>2 DEF Contains
<1>8. IsInjective(t)
  <2>1. DOMAIN t = 1..Len(t)
    BY <1>4
  <2>2. ASSUME NEW i \in 1..Len(t), NEW j \in 1..Len(t), t[i] = t[j] PROVE i = j
    <3>1. pos(i) = pos(j)
      <4> HIDE DEF pos
      <4> QED BY <1>5, <1>6, <2>2
    <3> QED BY <1>2, <3>1
  <2> QED BY <2>1, <2>2 DEF IsInjective
<1> QED BY <1>3, <1>4, <1>7, <1>8

-----------------------------------------------------------------------------
\* Nodes that are changed in one field.

Same(a, b) ==
  a.type = b.type /\ a.name = b.name /\ a.text = b.text /\ a.learned = b.learned

\* The nodes in D are what they were in t, and in the same directories.
Stay(t, u, D) == \A m \in D : Same(u[m], t[m]) /\ u[m].parent = t[m].parent

\* A node with other children
LEMMA ChildrenSet ==
  ASSUME NEW r \in NodeRecord, NEW x \in Seq(Int)
  PROVE  /\ [r EXCEPT !.children = x] \in NodeRecord
         /\ [r EXCEPT !.children = x].children = x
         /\ [r EXCEPT !.children = x].parent = r.parent
         /\ Same([r EXCEPT !.children = x], r)
  BY DEF NodeRecord, Same

\* A node with another parent
LEMMA ParentSet ==
  ASSUME NEW r \in NodeRecord, NEW x \in Int
  PROVE  /\ [r EXCEPT !.parent = x] \in NodeRecord
         /\ [r EXCEPT !.parent = x].parent = x
         /\ [r EXCEPT !.parent = x].children = r.children
         /\ Same([r EXCEPT !.parent = x], r)
  BY DEF NodeRecord, Same

\* A node with another name
LEMMA NameSet ==
  ASSUME NEW r \in NodeRecord, NEW x \in Seq(Chars)
  PROVE  /\ [r EXCEPT !.name = x] \in NodeRecord
         /\ [r EXCEPT !.name = x].name = x
         /\ [r EXCEPT !.name = x].type = r.type
         /\ [r EXCEPT !.name = x].learned = r.learned
         /\ [r EXCEPT !.name = x].children = r.children
         /\ [r EXCEPT !.name = x].parent = r.parent
  BY DEF NodeRecord

\* A file with another text, and a spell that is learned
LEMMA ContentSet ==
  ASSUME NEW r \in NodeRecord,
         NEW x \in {"empty", "carved", "edited"}
  PROVE  /\ [r EXCEPT !.text = x] \in NodeRecord
         /\ [r EXCEPT !.text = x].name = r.name
         /\ [r EXCEPT !.text = x].type = r.type
         /\ [r EXCEPT !.text = x].learned = r.learned
         /\ [r EXCEPT !.text = x].children = r.children
         /\ [r EXCEPT !.text = x].parent = r.parent
         /\ [r EXCEPT !.learned = TRUE] \in NodeRecord
         /\ [r EXCEPT !.learned = TRUE].name = r.name
         /\ [r EXCEPT !.learned = TRUE].type = r.type
         /\ [r EXCEPT !.learned = TRUE].children = r.children
         /\ [r EXCEPT !.learned = TRUE].parent = r.parent
  BY DEF NodeRecord

\* The fields of a node have their types.
LEMMA NodeFields ==
  ASSUME NEW r \in NodeRecord
  PROVE  r.children \in Seq(Int) /\ r.parent \in Int /\ r.name \in Seq(Chars)
  BY DEF NodeRecord

\* link_child changes the list of dir and the parent of n.
LEMMA LinkedIs ==
  ASSUME NEW D \in SUBSET Int, NEW t \in [D -> NodeRecord], NEW n \in D, NEW dir \in D
  PROVE  /\ Linked(t, n, dir) \in [D -> NodeRecord]
         /\ \A m \in D :
              /\ Same(Linked(t, n, dir)[m], t[m])
              /\ m = dir => Linked(t, n, dir)[m].children = <<n>> \o t[dir].children
              /\ m # dir => Linked(t, n, dir)[m].children = t[m].children
              /\ m = n => Linked(t, n, dir)[m].parent = dir
              /\ m # n => Linked(t, n, dir)[m].parent = t[m].parent
<1> DEFINE x == <<n>> \o t[dir].children
           s == [t EXCEPT ![dir] = [t[dir] EXCEPT !.children = x]]
           u == [s EXCEPT ![n] = [s[n] EXCEPT !.parent = dir]]
<1>1. x \in Seq(Int)
  <2>1. t[dir].children \in Seq(Int)
    BY NodeFields
  <2> QED BY <2>1, Prepended
<1>2. Linked(t, n, dir) = u
  BY DEF Linked
<1> HIDE DEF x
<1>3. /\ s \in [D -> NodeRecord]
      /\ \A m \in D :
           /\ Same(s[m], t[m]) /\ s[m].parent = t[m].parent
           /\ m = dir => s[m].children = x
           /\ m # dir => s[m].children = t[m].children
  <2>1. [t[dir] EXCEPT !.children = x] \in NodeRecord
    BY <1>1, ChildrenSet
  <2>2. s \in [D -> NodeRecord]
    BY <2>1
  <2>3. s[dir] = [t[dir] EXCEPT !.children = x] /\ \A m \in D \ {dir} : s[m] = t[m]
    OBVIOUS
  <2> HIDE DEF s
  <2>4. Same(s[dir], t[dir]) /\ s[dir].parent = t[dir].parent /\ s[dir].children = x
    BY <1>1, <2>3, ChildrenSet
  <2>5. \A m \in D \ {dir} : Same(s[m], t[m])
    BY <2>3 DEF Same
  <2> QED BY <2>2, <2>3, <2>4, <2>5
<1> HIDE DEF s
<1>4. /\ u \in [D -> NodeRecord]
      /\ \A m \in D :
           /\ Same(u[m], s[m]) /\ u[m].children = s[m].children
           /\ m = n => u[m].parent = dir
           /\ m # n => u[m].parent = s[m].parent
  <2>1. [s[n] EXCEPT !.parent = dir] \in NodeRecord /\ dir \in Int
    BY <1>3, ParentSet
  <2>2. u \in [D -> NodeRecord]
    BY <1>3, <2>1
  <2>3. u[n] = [s[n] EXCEPT !.parent = dir] /\ \A m \in D \ {n} : u[m] = s[m]
    BY <1>3
  <2> HIDE DEF u
  <2>4. Same(u[n], s[n]) /\ u[n].children = s[n].children /\ u[n].parent = dir
    BY <1>3, <2>1, <2>3, ParentSet
  <2>5. \A m \in D \ {n} : Same(u[m], s[m])
    BY <2>3 DEF Same
  <2> QED BY <2>2, <2>3, <2>4, <2>5
<1> HIDE DEF u
<1>5. \A m \in D : Same(u[m], t[m])
  BY <1>3, <1>4 DEF Same
<1> QED BY <1>2, <1>3, <1>4, <1>5 DEF x

\* u is t with n below dir, and every other node where it was.
LinkedTo(t, u, D, n, dir) ==
  /\ DOMAIN u = D
  /\ \A m \in D : Same(u[m], t[m])
  /\ \A m \in D \ {n} : u[m].parent = t[m].parent
  /\ u[n].parent = dir

\* link_child moves n, and no other node.
LEMMA LinkedMoves ==
  ASSUME NEW D \in SUBSET Int, NEW t \in [D -> NodeRecord], NEW n \in D, NEW dir \in D
  PROVE  LinkedTo(t, Linked(t, n, dir), D, n, dir)
<1> DEFINE u == Linked(t, n, dir)
<1>1. /\ u \in [D -> NodeRecord]
      /\ \A m \in D :
           /\ Same(u[m], t[m])
           /\ m = dir => u[m].children = <<n>> \o t[dir].children
           /\ m # dir => u[m].children = t[m].children
           /\ m = n => u[m].parent = dir
           /\ m # n => u[m].parent = t[m].parent
  BY LinkedIs
<1> HIDE DEF u
<1>2. LinkedTo(t, u, D, n, dir)
  BY <1>1 DEF LinkedTo
<1> QED BY <1>2 DEF u

\* remove_child changes the list of the parent.
LEMMA UnlinkedIs ==
  ASSUME NEW D \in SUBSET Int, NEW t \in [D -> NodeRecord], NEW n \in D, t[n].parent \in D,
         IsInjective(t[t[n].parent].children), Contains(t[t[n].parent].children, n)
  PROVE  /\ Unlinked(t, n) \in [D -> NodeRecord]
         /\ \A m \in D :
              /\ Same(Unlinked(t, n)[m], t[m]) /\ Unlinked(t, n)[m].parent = t[m].parent
              /\ m # t[n].parent => Unlinked(t, n)[m].children = t[m].children
         /\ IsInjective(Unlinked(t, n)[t[n].parent].children)
         /\ \A c : Contains(Unlinked(t, n)[t[n].parent].children, c) <=>
                     Contains(t[t[n].parent].children, c) /\ c # n
<1> DEFINE dir == t[n].parent
           x == RemoveFirst(t[dir].children, n)
           s == [t EXCEPT ![dir] = [t[dir] EXCEPT !.children = x]]
<1>1. /\ x \in Seq(Int) /\ IsInjective(x)
      /\ \A c : Contains(x, c) <=> Contains(t[dir].children, c) /\ c # n
  <2>1. t[dir].children \in Seq(Int)
    BY NodeFields
  <2> HIDE DEF dir
  <2>2. IsInjective(t[dir].children) /\ Contains(t[dir].children, n)
    BY DEF dir
  <2> QED BY <2>1, <2>2, Removed
<1>2. Unlinked(t, n) = s
  BY DEF Unlinked
<1> HIDE DEF x, dir
<1>3. dir \in D
  BY DEF dir
<1>4. [t[dir] EXCEPT !.children = x] \in NodeRecord
  BY <1>1, <1>3, ChildrenSet
<1>5. s \in [D -> NodeRecord]
  BY <1>3, <1>4
<1>6. s[dir] = [t[dir] EXCEPT !.children = x] /\ \A m \in D \ {dir} : s[m] = t[m]
  BY <1>3
<1> HIDE DEF s
<1>7. Same(s[dir], t[dir]) /\ s[dir].parent = t[dir].parent /\ s[dir].children = x
  BY <1>1, <1>3, <1>6, ChildrenSet
<1>8. \A m \in D \ {dir} : Same(s[m], t[m])
  BY <1>6 DEF Same
<1> QED BY <1>1, <1>2, <1>3, <1>5, <1>6, <1>7, <1>8 DEF dir

-----------------------------------------------------------------------------
\* A tree with the node n taken out of the list it was in, or not yet in any.

Loose(t, n, d) ==
  /\ Typed(t) /\ \A m \in DOMAIN t : GoodNode(t[m])
  /\ n \in DOMAIN t \ {Root}
  /\ \A m \in DOMAIN t : \A i \in 1..Len(t[m].children) :
       t[m].children[i] \in DOMAIN t \ {n} /\ t[t[m].children[i]].parent = m
  /\ ListedOnce(t)
  /\ t[Root].parent = None
  /\ \A m \in DOMAIN t \ {Root, n} :
       t[m].parent \in DOMAIN t /\ Contains(t[t[m].parent].children, m)
  /\ \A m, k \in DOMAIN t \ {n} : t[m].parent = t[k].parent /\ t[m].name = t[k].name => m = k
  /\ d \in [DOMAIN t -> Nat] /\ d[Root] = 0
  /\ \A m \in DOMAIN t \ {Root, n} : d[m] = d[t[m].parent] + 1

\* A node that keeps all but its parent and its list stays a good one.
LEMMA GoodSame ==
  ASSUME NEW a \in NodeRecord, NEW b \in NodeRecord, Same(a, b), GoodNode(b),
         b.type = "file" => a.children = <<>>
  PROVE  GoodNode(a)
  BY DEF Same, GoodNode

\* remove_child makes a whole tree loose at n.
LEMMA UnlinkKeeps ==
  ASSUME NEW t, NEW d, Good(t, d), NEW n \in DOMAIN t \ {Root}
  PROVE  /\ Loose(Unlinked(t, n), n, d)
         /\ DOMAIN Unlinked(t, n) = DOMAIN t
         /\ \A m \in DOMAIN t :
              /\ Same(Unlinked(t, n)[m], t[m]) /\ Unlinked(t, n)[m].parent = t[m].parent
              /\ t[m].children = <<>> => Unlinked(t, n)[m].children = <<>>
<1> DEFINE D == DOMAIN t
           u == Unlinked(t, n)
           dir == t[n].parent
<1>1. D \in SUBSET Int /\ t \in [D -> NodeRecord] /\ Root \in D /\ D \subseteq 0..MaxNodes
  BY BoundsAssumption DEF Good, Typed
<1>2. dir \in D /\ Contains(t[dir].children, n) /\ IsInjective(t[dir].children) /\ n \in D
  BY DEF Good, ParentKnows, ListedOnce
<1>3. /\ u \in [D -> NodeRecord]
      /\ \A m \in D :
           /\ Same(u[m], t[m]) /\ u[m].parent = t[m].parent
           /\ m # dir => u[m].children = t[m].children
      /\ IsInjective(u[dir].children)
      /\ \A c : Contains(u[dir].children, c) <=> Contains(t[dir].children, c) /\ c # n
  <2> HIDE DEF D
  <2> QED BY <1>1, <1>2, UnlinkedIs
<1>4. DOMAIN u = D
  BY <1>3
<1> HIDE DEF u, dir
<1>5. \A m \in D : \A c : Contains(u[m].children, c) <=> Contains(t[m].children, c) /\ c # n
  <2> SUFFICES ASSUME NEW m \in D, NEW c
               PROVE  Contains(u[m].children, c) <=> Contains(t[m].children, c) /\ c # n
    OBVIOUS
  <2>1. m # dir => ~Contains(t[m].children, n)
    BY DEF Good, ChildrenKnow, Contains, dir
  <2> QED BY <1>3, <2>1
<1>6. \A m \in D : t[m].children = <<>> => u[m].children = <<>>
  <2> SUFFICES ASSUME NEW m \in D, t[m].children = <<>> PROVE u[m].children = <<>>
    OBVIOUS
  <2>1. m # dir
    BY <1>2 DEF Contains
  <2> QED BY <1>3, <2>1
<1>7. \A m \in D : GoodNode(u[m])
  <2> SUFFICES ASSUME NEW m \in D PROVE GoodNode(u[m])
    OBVIOUS
  <2>1. GoodNode(t[m]) /\ Same(u[m], t[m]) /\ u[m] \in NodeRecord /\ t[m] \in NodeRecord
    BY <1>1, <1>3 DEF Good
  <2>2. t[m].type = "file" => u[m].children = <<>>
    BY <1>6, <2>1 DEF GoodNode
  <2> QED BY <2>1, <2>2, GoodSame
<1>8. ASSUME NEW m \in D, NEW i \in 1..Len(u[m].children)
      PROVE  u[m].children[i] \in D \ {n} /\ u[u[m].children[i]].parent = m
  <2> DEFINE c == u[m].children[i]
  <2>1. Contains(u[m].children, c)
    BY DEF Contains
  <2> HIDE DEF c
  <2>2. Contains(t[m].children, c) /\ c # n
    BY <1>5, <2>1
  <2>3. c \in D /\ t[c].parent = m
    BY <2>2 DEF Contains, Good, ChildrenKnow
  <2> QED BY <1>3, <2>2, <2>3 DEF c
<1>9. \A m \in D : IsInjective(u[m].children)
  BY <1>3 DEF Good, ListedOnce
<1>10. ASSUME NEW m \in D \ {Root, n}
       PROVE  u[m].parent \in D /\ Contains(u[u[m].parent].children, m)
  <2>1. t[m].parent \in D /\ Contains(t[t[m].parent].children, m)
    BY DEF Good, ParentKnows
  <2> QED BY <1>3, <1>5, <2>1
<1>11. u[Root].parent = None
  BY <1>1, <1>3 DEF Good, ParentKnows
<1>12. \A m, k \in D \ {n} : u[m].parent = u[k].parent /\ u[m].name = u[k].name => m = k
  BY <1>3 DEF Good, Distinct, Same
<1>13. d \in [D -> Nat] /\ d[Root] = 0 /\ \A m \in D \ {Root, n} : d[m] = d[u[m].parent] + 1
  BY <1>3 DEF Good, IsDepth
<1>14. Loose(u, n, d)
  BY <1>1, <1>3, <1>4, <1>7, <1>8, <1>9, <1>10, <1>11, <1>12, <1>13
  DEF Loose, Typed, ListedOnce
<1> QED BY <1>3, <1>4, <1>6, <1>14 DEF u

\* link_child makes a tree loose at n whole, if the depth of n is right and its name free.
LEMMA LinkKeeps ==
  ASSUME NEW t, NEW n, NEW d, Loose(t, n, d), NEW dir \in DOMAIN t \ {n},
         t[dir].type = "dir", d[n] = d[dir] + 1,
         \A m \in DOMAIN t \ {n} : ~(t[m].parent = dir /\ t[m].name = t[n].name)
  PROVE  /\ Good(Linked(t, n, dir), d)
         /\ DOMAIN Linked(t, n, dir) = DOMAIN t
         /\ \A m \in DOMAIN t : Linked(t, n, dir)[m].type = t[m].type
<1> DEFINE D == DOMAIN t
           u == Linked(t, n, dir)
<1>1. D \in SUBSET Int /\ t \in [D -> NodeRecord] /\ Root \in D /\ D \subseteq 0..MaxNodes
      /\ n \in D /\ n # Root /\ n \in Int /\ dir \in D /\ dir # n
  BY BoundsAssumption DEF Loose, Typed
<1>2. /\ u \in [D -> NodeRecord]
      /\ \A m \in D :
           /\ Same(u[m], t[m])
           /\ m = dir => u[m].children = <<n>> \o t[dir].children
           /\ m # dir => u[m].children = t[m].children
           /\ m = n => u[m].parent = dir
           /\ m # n => u[m].parent = t[m].parent
  <2> HIDE DEF D
  <2> QED BY <1>1, LinkedIs
<1>3. DOMAIN u = D
  BY <1>2
<1> HIDE DEF u
<1>4. \A m \in D : ~Contains(t[m].children, n)
  BY DEF Loose, Contains
<1>5. /\ \A c : Contains(u[dir].children, c) <=> Contains(t[dir].children, c) \/ c = n
      /\ IsInjective(u[dir].children)
  <2> DEFINE s == t[dir].children
  <2>1. s \in Seq(Int) /\ IsInjective(s) /\ ~Contains(s, n) /\ n \in Int
    BY <1>1, <1>4, NodeFields DEF Loose, ListedOnce
  <2>2. u[dir].children = <<n>> \o s
    BY <1>1, <1>2
  <2> HIDE DEF s
  <2>3. /\ \A c : Contains(<<n>> \o s, c) <=> Contains(s, c) \/ c = n
        /\ IsInjective(<<n>> \o s)
    BY <2>1, ListedFirst
  <2> QED BY <2>2, <2>3 DEF s
<1>6. \A m \in D : GoodNode(u[m])
  <2> SUFFICES ASSUME NEW m \in D PROVE GoodNode(u[m])
    OBVIOUS
  <2>1. GoodNode(t[m]) /\ Same(u[m], t[m]) /\ u[m] \in NodeRecord /\ t[m] \in NodeRecord
    BY <1>1, <1>2 DEF Loose
  <2>2. t[m].type = "file" => u[m].children = <<>>
    BY <1>2, <2>1 DEF GoodNode
  <2> QED BY <2>1, <2>2, GoodSame
<1>7. ASSUME NEW m \in D, NEW i \in 1..Len(u[m].children)
      PROVE  u[m].children[i] \in D /\ u[u[m].children[i]].parent = m
  <2> DEFINE c == u[m].children[i]
  <2>1. Contains(u[m].children, c)
    BY DEF Contains
  <2> HIDE DEF c
  <2>2. CASE Contains(t[m].children, c)
    <3>1. c \in D \ {n} /\ t[c].parent = m
      BY <2>2 DEF Contains, Loose
    <3> QED BY <1>2, <3>1 DEF c
  <2>3. CASE ~Contains(t[m].children, c)
    <3>1. m = dir /\ c = n
      BY <1>2, <1>5, <2>1, <2>3
    <3> QED BY <1>1, <1>2, <3>1 DEF c
  <2> QED BY <2>2, <2>3
<1>8. \A m \in D : IsInjective(u[m].children)
  BY <1>2, <1>5 DEF Loose, ListedOnce
<1>9. ASSUME NEW m \in D \ {Root}
      PROVE  u[m].parent \in D /\ Contains(u[u[m].parent].children, m)
  <2>1. CASE m = n
    BY <1>1, <1>2, <1>5, <2>1
  <2>2. CASE m # n
    <3>1. t[m].parent \in D /\ Contains(t[t[m].parent].children, m)
      BY <2>2 DEF Loose
    <3>2. u[m].parent = t[m].parent
      BY <1>2, <2>2
    <3> QED BY <1>2, <1>5, <3>1, <3>2
  <2> QED BY <2>1, <2>2
<1>10. u[Root].parent = None
  BY <1>1, <1>2 DEF Loose
<1>11. \A m, k \in D : u[m].parent = u[k].parent /\ u[m].name = u[k].name => m = k
  <2> SUFFICES ASSUME NEW m \in D, NEW k \in D, u[m].parent = u[k].parent,
                      u[m].name = u[k].name, m # k
               PROVE  FALSE
    OBVIOUS
  <2>0. u[m].name = t[m].name /\ u[k].name = t[k].name
    BY <1>2 DEF Same
  <2>1. CASE m # n /\ k # n
    <3>1. t[m].parent = t[k].parent /\ t[m].name = t[k].name
      BY <1>2, <2>0, <2>1
    <3> QED BY <2>1, <3>1 DEF Loose
  <2>2. CASE m = n
    BY <1>1, <1>2, <2>0, <2>2
  <2>3. CASE k = n
    BY <1>1, <1>2, <2>0, <2>3
  <2> QED BY <2>1, <2>2, <2>3
<1>12. d \in [D -> Nat] /\ d[Root] = 0
  BY DEF Loose
<1>13. \A m \in D \ {Root} : d[m] = d[u[m].parent] + 1
  BY <1>1, <1>2 DEF Loose
<1>14. \A m \in D : u[m].type = t[m].type
  BY <1>2 DEF Same
<1>15. Good(u, d)
  BY <1>1, <1>2, <1>3, <1>6, <1>7, <1>8, <1>9, <1>10, <1>11, <1>12, <1>13
  DEF Good, Typed, ListedOnce, ChildrenKnow, ParentKnows, Distinct, IsDepth
<1> QED BY <1>3, <1>14, <1>15 DEF u

\* The node n renamed
WithName(t, n, name) == [t EXCEPT ![n].name = name]

\* A loose node can be renamed.
LEMMA RenameKeeps ==
  ASSUME NEW t, NEW n, NEW d, Loose(t, n, d), NEW name \in Seq(Chars),
         Len(name) \in 1..NameMax, name # BaseName
  PROVE  /\ Loose(WithName(t, n, name), n, d)
         /\ DOMAIN WithName(t, n, name) = DOMAIN t
         /\ WithName(t, n, name)[n].name = name
         /\ \A m \in DOMAIN t \ {n} : WithName(t, n, name)[m] = t[m]
         /\ \A m \in DOMAIN t : WithName(t, n, name)[m].type = t[m].type
<1> DEFINE D == DOMAIN t
           u == [t EXCEPT ![n] = [t[n] EXCEPT !.name = name]]
<1>1. D \in SUBSET Int /\ t \in [D -> NodeRecord] /\ Root \in D /\ D \subseteq 0..MaxNodes
      /\ n \in D /\ n # Root
  BY BoundsAssumption DEF Loose, Typed
<1>2. WithName(t, n, name) = u
  BY DEF WithName
<1>3. /\ [t[n] EXCEPT !.name = name] \in NodeRecord
      /\ [t[n] EXCEPT !.name = name].name = name
      /\ [t[n] EXCEPT !.name = name].type = t[n].type
      /\ [t[n] EXCEPT !.name = name].learned = t[n].learned
      /\ [t[n] EXCEPT !.name = name].children = t[n].children
      /\ [t[n] EXCEPT !.name = name].parent = t[n].parent
  BY <1>1, NameSet
<1>4. u \in [D -> NodeRecord] /\ DOMAIN u = D
  BY <1>1, <1>3
<1>5. u[n] = [t[n] EXCEPT !.name = name] /\ \A m \in D \ {n} : u[m] = t[m]
  BY <1>1
<1> HIDE DEF u
<1>6. /\ \A m \in D : /\ u[m].children = t[m].children /\ u[m].parent = t[m].parent
                      /\ u[m].type = t[m].type
      /\ u[n].learned = t[n].learned /\ u[n].name = name
  BY <1>3, <1>5
<1>7. \A m \in D : GoodNode(u[m])
  <2> SUFFICES ASSUME NEW m \in D PROVE GoodNode(u[m])
    OBVIOUS
  <2>1. GoodNode(t[m])
    BY DEF Loose
  <2> QED BY <1>5, <1>6, <2>1 DEF GoodNode
<1>8. ASSUME NEW m \in D, NEW i \in 1..Len(u[m].children)
      PROVE  u[m].children[i] \in D \ {n} /\ u[u[m].children[i]].parent = m
  <2>1. t[m].children[i] \in D \ {n} /\ t[t[m].children[i]].parent = m
    BY <1>6 DEF Loose
  <2> QED BY <1>6, <2>1
<1>9. \A m \in D : IsInjective(u[m].children)
  BY <1>6 DEF Loose, ListedOnce
<1>10. \A m \in D \ {Root, n} : u[m].parent \in D /\ Contains(u[u[m].parent].children, m)
  BY <1>6 DEF Loose
<1>11. \A m, k \in D \ {n} : u[m].parent = u[k].parent /\ u[m].name = u[k].name => m = k
  BY <1>5 DEF Loose
<1>12. u[Root].parent = None /\ d \in [D -> Nat] /\ d[Root] = 0
  BY <1>1, <1>6 DEF Loose
<1>14. \A m \in D \ {Root, n} : d[m] = d[u[m].parent] + 1
  BY <1>6 DEF Loose
<1>13. Loose(u, n, d)
  BY <1>1, <1>4, <1>7, <1>8, <1>9, <1>10, <1>11, <1>12, <1>14
  DEF Loose, Typed, ListedOnce
<1> QED BY <1>2, <1>4, <1>5, <1>6, <1>13

\* free_subtree of a node without children
LEMMA DeleteKeeps ==
  ASSUME NEW t, NEW n, NEW d, Loose(t, n, d), t[n].children = <<>>
  PROVE  /\ \E e : Good(Freeing(t, {n}), e) /\ \A m \in DOMAIN t \ {n} : e[m] = d[m]
         /\ DOMAIN Freeing(t, {n}) = DOMAIN t \ {n}
         /\ \A m \in DOMAIN t \ {n} : Freeing(t, {n})[m] = t[m]
<1> DEFINE D == DOMAIN t
           E == D \ {n}
           u == Freeing(t, {n})
           e == [m \in E |-> d[m]]
<1>1. t \in [D -> NodeRecord] /\ Root \in D /\ D \subseteq 0..MaxNodes
      /\ n \in D /\ n # Root
  BY DEF Loose, Typed
<1>2. DOMAIN u = E /\ \A m \in E : u[m] = t[m]
  BY DEF Freeing
<1>3. u \in [E -> NodeRecord]
  BY <1>1 DEF Freeing
<1> HIDE DEF u
<1>4. \A m \in E : GoodNode(u[m]) /\ IsInjective(u[m].children)
  BY <1>2 DEF Loose, ListedOnce
<1>5. ASSUME NEW m \in E, NEW i \in 1..Len(u[m].children)
      PROVE  u[m].children[i] \in E /\ u[u[m].children[i]].parent = m
  <2>1. t[m].children[i] \in E /\ t[t[m].children[i]].parent = m
    BY <1>2 DEF Loose
  <2> QED BY <1>2, <2>1
<1>6. \A m \in E \ {Root} : u[m].parent \in E /\ Contains(u[u[m].parent].children, m)
  <2> SUFFICES ASSUME NEW m \in E \ {Root}
               PROVE  u[m].parent \in E /\ Contains(u[u[m].parent].children, m)
    OBVIOUS
  <2>1. t[m].parent \in D /\ Contains(t[t[m].parent].children, m)
    BY DEF Loose
  <2>2. t[m].parent # n
    BY <2>1 DEF Contains
  <2> QED BY <1>2, <2>1, <2>2
<1>7. \A m, k \in E : u[m].parent = u[k].parent /\ u[m].name = u[k].name => m = k
  BY <1>2 DEF Loose
<1>8. u[Root].parent = None
  BY <1>1, <1>2 DEF Loose
<1>9. e \in [E -> Nat] /\ e[Root] = 0 /\ \A m \in E \ {Root} : e[m] = e[u[m].parent] + 1
  <2>1. d \in [D -> Nat] /\ d[Root] = 0
    BY DEF Loose
  <2>2. \A m \in E \ {Root} : d[m] = d[u[m].parent] + 1
    BY <1>2 DEF Loose
  <2> QED BY <1>1, <1>6, <2>1, <2>2
<1>10. \A m \in E : e[m] = d[m]
  OBVIOUS
<1> HIDE DEF e
<1>11. Good(u, e)
  BY <1>1, <1>2, <1>3, <1>4, <1>5, <1>6, <1>7, <1>8, <1>9
  DEF Good, Typed, ListedOnce, ChildrenKnow, ParentKnows, Distinct, IsDepth
<1> QED BY <1>2, <1>10, <1>11 DEF u

\* What lies in n goes with it, and is as deep below it as before.
LEMMA DeepenKeeps ==
  ASSUME NEW t, NEW n, NEW d, Loose(t, n, d), NEW S \in SUBSET DOMAIN t, NEW k \in Nat,
         n \in S, Root \notin S, \A m \in S : d[n] <= d[m],
         \A m \in DOMAIN t \ {Root, n} : m \in S <=> t[m].parent \in S
  PROVE  \E e : /\ Loose(t, n, e) /\ e[n] = k
                /\ \A m \in DOMAIN t \ S : e[m] = d[m]
<1> DEFINE D == DOMAIN t
           e == [m \in D |-> IF m \in S THEN d[m] - d[n] + k ELSE d[m]]
<1>1. n \in D /\ Root \in D /\ d \in [D -> Nat] /\ d[Root] = 0
  BY DEF Loose, Typed
<1>2. \A m \in D : d[m] \in Nat
  BY <1>1
<1>3. e \in [D -> Nat]
  BY <1>1, <1>2
<1>4. e[Root] = 0 /\ e[n] = k /\ \A m \in D \ S : e[m] = d[m]
  BY <1>1, <1>2
<1>5. ASSUME NEW m \in D \ {Root, n} PROVE e[m] = e[t[m].parent] + 1
  <2>1. t[m].parent \in D /\ d[m] = d[t[m].parent] + 1
    BY DEF Loose
  <2> QED BY <1>1, <1>2, <2>1
<1> HIDE DEF e
<1>6. Loose(t, n, e)
  BY <1>1, <1>3, <1>4, <1>5 DEF Loose
<1> QED BY <1>4, <1>6

\* With some depths, n is out of the lists and one step below dir.
Hangs(t, n, dir) == \E e : Loose(t, n, e) /\ e[n] = e[dir] + 1

\* node_alloc makes a tree that is loose at the new node.
LEMMA AddLoose ==
  ASSUME NEW t, NEW d, Good(t, d), NEW n \in 0..MaxNodes \ DOMAIN t, NEW dir \in DOMAIN t,
         NEW new \in NodeRecord, GoodNode(new), new.children = <<>>
  PROVE  /\ DOMAIN With(t, n, new) = DOMAIN t \cup {n} /\ With(t, n, new)[n] = new
         /\ \A m \in DOMAIN t : With(t, n, new)[m] = t[m]
         /\ Hangs(With(t, n, new), n, dir)
<1> DEFINE D == DOMAIN t
           E == D \cup {n}
           u == With(t, n, new)
           e == [m \in E |-> IF m = n THEN d[dir] + 1 ELSE d[m]]
<1>1. t \in [D -> NodeRecord] /\ Root \in D /\ D \subseteq 0..MaxNodes /\ d \in [D -> Nat]
      /\ d[Root] = 0 /\ n # Root /\ n \notin D /\ dir # n
  BY DEF Good, Typed, IsDepth
<1>4. DOMAIN u = E /\ u[n] = new /\ \A m \in D : u[m] = t[m]
  BY <1>1 DEF With
<1>5. u \in [E -> NodeRecord]
  BY <1>1 DEF With
<1> HIDE DEF u
<1>6. \A m \in E : GoodNode(u[m]) /\ IsInjective(u[m].children)
  <2>1. GoodNode(new) /\ IsInjective(new.children)
    BY DEF IsInjective
  <2> QED BY <1>4, <2>1 DEF Good, ListedOnce
<1>7. ASSUME NEW m \in E, NEW i \in 1..Len(u[m].children)
      PROVE  u[m].children[i] \in D /\ u[u[m].children[i]].parent = m
  <2>1. m \in D
    BY <1>4
  <2>2. t[m].children[i] \in D /\ t[t[m].children[i]].parent = m
    BY <1>4, <2>1 DEF Good, ChildrenKnow
  <2> QED BY <1>4, <2>1, <2>2
<1>8. \A m \in D \ {Root} : u[m].parent \in D /\ Contains(u[u[m].parent].children, m)
  BY <1>4 DEF Good, ParentKnows
<1>9. \A m, k \in D : u[m].parent = u[k].parent /\ u[m].name = u[k].name => m = k
  BY <1>4 DEF Good, Distinct
<1>10. u[Root].parent = None
  BY <1>1, <1>4 DEF Good, ParentKnows
<1>11. e \in [E -> Nat] /\ e[Root] = 0 /\ e[n] = e[dir] + 1
       /\ \A m \in D \ {Root} : e[m] = e[u[m].parent] + 1
  <2>1. \A m \in D \ {Root} : d[m] = d[u[m].parent] + 1
    BY <1>4 DEF Good, IsDepth
  <2> QED BY <1>1, <1>8, <2>1
<1> HIDE DEF e
<1>12. E \ {n} = D /\ E \ {Root, n} = D \ {Root} /\ E \subseteq 0..MaxNodes /\ Root \in E
  BY <1>1
<1>14. \A m \in E : \A i \in 1..Len(u[m].children) :
         u[m].children[i] \in E \ {n} /\ u[u[m].children[i]].parent = m
  BY <1>7, <1>12
<1>15. \A m \in E \ {Root, n} : /\ u[m].parent \in E /\ Contains(u[u[m].parent].children, m)
                              /\ e[m] = e[u[m].parent] + 1
  BY <1>8, <1>11, <1>12
<1>16. \A m, k \in E \ {n} : u[m].parent = u[k].parent /\ u[m].name = u[k].name => m = k
  BY <1>9, <1>12
<1>13. Loose(u, n, e)
  BY <1>1, <1>4, <1>5, <1>6, <1>10, <1>11, <1>12, <1>14, <1>15, <1>16
  DEF Loose, Typed, ListedOnce
<1> QED BY <1>4, <1>11, <1>13 DEF u, E, Hangs

\* A node that keeps its place and its name
LEMMA ContentKeeps ==
  ASSUME NEW t, NEW d, Good(t, d), NEW n \in DOMAIN t, NEW new \in NodeRecord,
         new.name = t[n].name, new.type = t[n].type, new.children = t[n].children,
         new.parent = t[n].parent, new.learned => t[n].type = "file"
  PROVE  Good([t EXCEPT ![n] = new], d)
<1> DEFINE D == DOMAIN t
           u == [t EXCEPT ![n] = new]
<1>1. t \in [D -> NodeRecord] /\ Root \in D /\ D \subseteq 0..MaxNodes
  BY DEF Good, Typed
<1>2. u \in [D -> NodeRecord] /\ DOMAIN u = D /\ u[n] = new /\ \A m \in D \ {n} : u[m] = t[m]
  BY <1>1
<1> HIDE DEF u
<1>3. \A m \in D : /\ u[m].children = t[m].children /\ u[m].parent = t[m].parent
                   /\ u[m].type = t[m].type /\ u[m].name = t[m].name
  BY <1>2
<1>4. \A m \in D : GoodNode(u[m])
  <2> SUFFICES ASSUME NEW m \in D PROVE GoodNode(u[m])
    OBVIOUS
  <2>1. GoodNode(t[m])
    BY DEF Good
  <2> QED BY <1>2, <1>3, <2>1 DEF GoodNode
<1>5. ChildrenKnow(u)
  BY <1>2, <1>3 DEF Good, ChildrenKnow
<1>6. ListedOnce(u)
  BY <1>2, <1>3 DEF Good, ListedOnce
<1>7. ParentKnows(u)
  BY <1>1, <1>2, <1>3 DEF Good, ParentKnows
<1>8. Distinct(u)
  BY <1>2, <1>3 DEF Good, Distinct
<1>9. IsDepth(u, d)
  BY <1>2, <1>3 DEF Good, IsDepth
<1> QED BY <1>1, <1>2, <1>4, <1>5, <1>6, <1>7, <1>8, <1>9 DEF Good, Typed, u

\* The way from a node to the root.

\* What the way to the root depends on
Rooted(d) ==
  /\ Nodes \subseteq 0..MaxNodes /\ Root \in Nodes
  /\ ParentKnows(tree) /\ IsDepth(tree, d)

\* Only the root is at depth 0.
LEMMA Depths ==
  ASSUME NEW d, Rooted(d)
  PROVE  /\ \A n \in Nodes : d[n] \in Nat /\ (d[n] = 0 <=> n = Root) /\ n # None
         /\ \A n \in Nodes \ {Root} :
              tree[n].parent \in Nodes /\ d[tree[n].parent] = d[n] - 1
<1>1. \A n \in Nodes : d[n] \in Nat
  BY DEF Rooted, IsDepth, Nodes
<1>2. \A n \in Nodes \ {Root} : tree[n].parent \in Nodes /\ d[n] = d[tree[n].parent] + 1
  BY DEF Rooted, IsDepth, ParentKnows, Nodes
<1>3. \A n \in Nodes : n # None
  BY BoundsAssumption DEF Rooted, None
<1>4. d[Root] = 0
  BY DEF Rooted, IsDepth
<1> QED BY <1>1, <1>2, <1>3, <1>4

\* There are no more depths than nodes.
LEMMA DepthsBounded ==
  ASSUME NEW d, Rooted(d), NEW n \in Nodes
  PROVE  d[n] <= MaxNodes
<1> DEFINE Met == {k \in Nat : k <= d[n] => \E m \in Nodes : d[m] = d[n] - k}
<1>1. d[n] \in Nat /\ MaxNodes \in Nat
  BY Depths, BoundsAssumption
<1>2. 0 \in Met
  BY <1>1
<1>3. ASSUME NEW k \in Met PROVE k + 1 \in Met
  <2> SUFFICES ASSUME k + 1 <= d[n] PROVE \E m \in Nodes : d[m] = d[n] - (k + 1)
    OBVIOUS
  <2>1. PICK m \in Nodes : d[m] = d[n] - k
    BY <1>1
  <2>2. m # Root
    BY <1>1, <2>1, Depths
  <2> QED BY <1>1, <2>1, <2>2, Depths
<1>4. Met = Nat
  <2> HIDE DEF Met
  <2>1. Met \in SUBSET Nat
    BY DEF Met
  <2> QED BY <1>2, <1>3, <2>1, Induction
<1>5. SUFFICES ASSUME d[n] > MaxNodes PROVE FALSE
  BY <1>1
<1>6. ASSUME NEW j \in 0..MaxNodes + 1 PROVE \E m \in 0..MaxNodes : m \in Nodes /\ d[m] = j
  <2>1. d[n] - j \in Nat /\ d[n] - (d[n] - j) = j
    BY <1>1, <1>5
  <2>2. d[n] - j \in Met
    BY <1>4, <2>1
  <2>3. \E m \in Nodes : d[m] = j
    BY <1>1, <2>1, <2>2
  <2> QED BY <2>3 DEF Rooted
<1> HIDE DEF Met
<1> DEFINE S == 0..MaxNodes + 1
           T == 0..MaxNodes
           f == [j \in S |-> CHOOSE m \in T : m \in Nodes /\ d[m] = j]
<1>7. f \in [S -> T] /\ \A j \in S : d[f[j]] = j
  BY <1>6
<1>8. IsFiniteSet(S) /\ IsFiniteSet(T) /\ Cardinality(T) < Cardinality(S)
  BY <1>1, FS_Interval
<1> HIDE DEF S, T, f
<1>9. \E x, y \in S : x # y /\ f[x] = f[y]
  BY <1>7, <1>8, FS_PigeonHole
<1> QED BY <1>7, <1>9

\* The first m steps up from n
Up(n, m, g) ==
  g = [k \in 0..m |->
         IF k = 0 THEN n
         ELSE IF g[k - 1] = None THEN None ELSE tree[g[k - 1]].parent]

\* There are steps up from everything: by induction on their number.
LEMMA UpExists == \A n : \E g : Up(n, MaxNodes, g)
<1> SUFFICES ASSUME NEW n PROVE \E g : Up(n, MaxNodes, g)
  OBVIOUS
<1> DEFINE Some == {m \in Nat : \E g : Up(n, m, g)}
           over(u) == IF u = None THEN None ELSE tree[u].parent
<1>1. 0 \in Some
  <2>1. Up(n, 0, [k \in 0..0 |-> n])
    BY DEF Up
  <2> QED BY <2>1
<1>2. ASSUME NEW m \in Some PROVE m + 1 \in Some
  <2>1. PICK g : Up(n, m, g)
    OBVIOUS
  <2> DEFINE h == [k \in 0..m + 1 |-> IF k \in 0..m THEN g[k] ELSE over(g[m])]
             s == [k \in 0..m + 1 |-> IF k = 0 THEN n ELSE over(h[k - 1])]
  <2>2. ASSUME NEW k \in 0..m + 1 PROVE h[k] = s[k]
    <3> HIDE DEF over
    <3>1. CASE k = 0
      BY <2>1, <3>1 DEF Up
    <3>2. CASE k \in 1..m
      <4>1. g[k] = over(g[k - 1])
        BY <2>1, <3>2 DEF Up, over
      <4> QED BY <3>2, <4>1
    <3>3. CASE k = m + 1
      BY <3>3
    <3> QED BY <3>1, <3>2, <3>3
  <2>3. h = s
    BY <2>2
  <2>4. Up(n, m + 1, h)
    BY <2>3 DEF Up
  <2> QED BY <2>4
<1>3. Some = Nat
  <2> HIDE DEF Some
  <2>1. Some \in SUBSET Nat
    BY DEF Some
  <2> QED BY <1>1, <1>2, <2>1, Induction
<1> HIDE DEF Some
<1>4. MaxNodes \in Some
  BY <1>3, BoundsAssumption
<1> QED BY <1>4 DEF Some

\* The nodes on the way from n, which reaches the root and ends there
Way(n, d, up) ==
  /\ up[0] = n
  /\ \A k \in 0..MaxNodes :
       /\ k <= d[n] => up[k] \in Nodes /\ d[up[k]] = d[n] - k
       /\ k > d[n] => up[k] = None
  /\ \A k \in 1..MaxNodes : k <= d[n] => up[k] = tree[up[k - 1]].parent
  /\ Above(n) = {up[k] : k \in 0..d[n]}

\* Every node has its way to the root.
LEMMA WayHolds ==
  ASSUME NEW d, Rooted(d), NEW n \in Nodes
  PROVE  \E up : Way(n, d, up)
<1> DEFINE up == CHOOSE g : Up(n, MaxNodes, g)
<1>1. Up(n, MaxNodes, up)
  BY UpExists
<1>2. Above(n) = {up[k] : k \in 0..MaxNodes} \ {None}
  BY DEF Above, Up
<1> HIDE DEF up
<1>3. MaxNodes \in Nat /\ d[n] \in 0..MaxNodes
  BY Depths, DepthsBounded, BoundsAssumption
<1>4. /\ up[0] = n
      /\ \A k \in 1..MaxNodes :
           up[k] = IF up[k - 1] = None THEN None ELSE tree[up[k - 1]].parent
  BY <1>1, <1>3 DEF Up
<1> DEFINE Met == {k \in Nat : k <= d[n] => up[k] \in Nodes /\ d[up[k]] = d[n] - k}
<1>5. 0 \in Met
  BY <1>3, <1>4
<1>6. ASSUME NEW k \in Met PROVE k + 1 \in Met
  <2> SUFFICES ASSUME k + 1 <= d[n]
               PROVE  up[k + 1] \in Nodes /\ d[up[k + 1]] = d[n] - (k + 1)
    OBVIOUS
  <2>1. up[k] \in Nodes /\ d[up[k]] = d[n] - k
    BY <1>3
  <2>2. up[k] # Root /\ up[k] # None
    BY <1>3, <2>1, Depths
  <2>3. k + 1 \in 1..MaxNodes /\ (k + 1) - 1 = k
    BY <1>3
  <2>4. up[k + 1] = tree[up[k]].parent
    BY <1>4, <2>2, <2>3
  <2> QED BY <1>3, <2>1, <2>2, <2>4, Depths
<1>7. Met = Nat
  <2> HIDE DEF Met
  <2>1. Met \in SUBSET Nat
    BY DEF Met
  <2> QED BY <1>5, <1>6, <2>1, Induction
<1>8. \A k \in 0..d[n] : up[k] \in Nodes /\ d[up[k]] = d[n] - k
  <2> TAKE k \in 0..d[n]
  <2>1. k \in Met
    BY <1>3, <1>7
  <2> QED BY <1>3, <2>1
<1> HIDE DEF Met
<1> DEFINE Past == {k \in Nat : d[n] + 1 + k <= MaxNodes => up[d[n] + 1 + k] = None}
<1>9. 0 \in Past
  <2> SUFFICES ASSUME d[n] + 1 <= MaxNodes PROVE up[d[n] + 1] = None
    BY <1>3
  <2>1. up[d[n]] \in Nodes /\ d[up[d[n]]] = 0
    BY <1>3, <1>8
  <2>2. up[d[n]] = Root /\ Root # None
    BY <2>1, Depths DEF Root, None
  <2>3. d[n] + 1 \in 1..MaxNodes /\ (d[n] + 1) - 1 = d[n]
    BY <1>3
  <2>4. up[d[n] + 1] = tree[Root].parent
    BY <1>4, <2>2, <2>3
  <2> QED BY <2>4 DEF Rooted, ParentKnows
<1>10. ASSUME NEW k \in Past PROVE k + 1 \in Past
  <2> SUFFICES ASSUME d[n] + 1 + (k + 1) <= MaxNodes PROVE up[d[n] + 1 + (k + 1)] = None
    OBVIOUS
  <2>1. up[d[n] + 1 + k] = None
    BY <1>3
  <2>2. /\ d[n] + 1 + (k + 1) \in 1..MaxNodes
        /\ (d[n] + 1 + (k + 1)) - 1 = d[n] + 1 + k
    BY <1>3
  <2> QED BY <1>4, <2>1, <2>2
<1>11. Past = Nat
  <2> HIDE DEF Past
  <2>1. Past \in SUBSET Nat
    BY DEF Past
  <2> QED BY <1>9, <1>10, <2>1, Induction
<1>12. \A k \in 0..MaxNodes : k > d[n] => up[k] = None
  <2> SUFFICES ASSUME NEW k \in 0..MaxNodes, k > d[n] PROVE up[k] = None
    OBVIOUS
  <2>1. k - (d[n] + 1) \in Nat /\ d[n] + 1 + (k - (d[n] + 1)) = k
    BY <1>3
  <2>2. k - (d[n] + 1) \in Past
    BY <1>11, <2>1
  <2> QED BY <1>3, <2>1, <2>2
<1> HIDE DEF Past
<1>13. \A k \in 1..MaxNodes : k <= d[n] => up[k] = tree[up[k - 1]].parent
  <2> SUFFICES ASSUME NEW k \in 1..MaxNodes, k <= d[n] PROVE up[k] = tree[up[k - 1]].parent
    OBVIOUS
  <2>1. k - 1 \in 0..d[n]
    BY <1>3
  <2>2. up[k - 1] # None
    BY <1>8, <2>1, Depths
  <2> QED BY <1>4, <2>2
<1>14. Above(n) = {up[k] : k \in 0..d[n]}
  <2>1. \A k \in 0..MaxNodes : up[k] # None => k \in 0..d[n]
    BY <1>3, <1>12
  <2>2. \A k \in 0..d[n] : k \in 0..MaxNodes /\ up[k] # None
    BY <1>3, <1>8, Depths
  <2> QED BY <1>2, <2>1, <2>2
<1>15. \A k \in 0..MaxNodes : k <= d[n] => up[k] \in Nodes /\ d[up[k]] = d[n] - k
  BY <1>3, <1>8
<1> QED BY <1>4, <1>12, <1>13, <1>14, <1>15 DEF Way

\* What is above a node: the node itself, the root, and what is above its directory.
LEMMA AboveNode ==
  ASSUME NEW d, Rooted(d), NEW n \in Nodes
  PROVE  /\ n \in Above(n) /\ Root \in Above(n) /\ Above(n) \subseteq Nodes
         /\ \A m \in Above(n) : d[m] <= d[n]
         /\ \A m \in Above(n) \ {n} : \E c \in Nodes \ {Root} : tree[c].parent = m
<1>1. PICK up : Way(n, d, up)
  BY WayHolds
<1>2. d[n] \in 0..MaxNodes /\ MaxNodes \in Nat
  BY Depths, DepthsBounded, BoundsAssumption
<1>3. \A k \in 0..d[n] : k \in 0..MaxNodes /\ up[k] \in Nodes /\ d[up[k]] = d[n] - k
  BY <1>1, <1>2 DEF Way
<1>4. Above(n) = {up[k] : k \in 0..d[n]} /\ up[0] = n
  BY <1>1 DEF Way
<1>5. n \in Above(n)
  BY <1>2, <1>4
<1>6. Root \in Above(n)
  <2>1. d[n] \in 0..d[n] /\ up[d[n]] \in Nodes /\ d[up[d[n]]] = 0
    BY <1>2, <1>3
  <2>2. up[d[n]] = Root
    BY <2>1, Depths
  <2> QED BY <1>4, <2>1, <2>2
<1>7. ASSUME NEW m \in Above(n) PROVE m \in Nodes /\ d[m] <= d[n]
  BY <1>2, <1>3, <1>4
<1>8. ASSUME NEW m \in Above(n) \ {n} PROVE \E c \in Nodes \ {Root} : tree[c].parent = m
  <2>1. PICK k \in 0..d[n] : m = up[k]
    BY <1>4
  <2>2. k # 0
    BY <1>4, <2>1
  <2>3. k \in 1..MaxNodes /\ k - 1 \in 0..d[n] /\ k <= d[n]
    BY <1>2, <2>2
  <2>4. m = tree[up[k - 1]].parent
    BY <1>1, <2>1, <2>3 DEF Way
  <2>5. up[k - 1] \in Nodes /\ d[up[k - 1]] # 0
    <3>1. d[up[k - 1]] = d[n] - (k - 1)
      BY <1>3, <2>3
    <3> QED BY <1>2, <1>3, <2>3, <3>1
  <2> QED BY <2>4, <2>5, Depths
<1> QED BY <1>5, <1>6, <1>7, <1>8

\* What is above n is n and what is above its parent.
LEMMA AboveParent ==
  ASSUME NEW d, Rooted(d), NEW n \in Nodes \ {Root}
  PROVE  Above(n) = {n} \cup Above(tree[n].parent)
<1> DEFINE p == tree[n].parent
<1>1. p \in Nodes /\ d[p] = d[n] - 1 /\ d[n] \in 0..MaxNodes /\ MaxNodes \in Nat
      /\ d[p] \in Nat /\ n \in Nodes
  BY Depths, DepthsBounded, BoundsAssumption
<1> HIDE DEF p
<1>2. PICK up : Way(n, d, up)
  BY WayHolds
<1>3. PICK vp : Way(p, d, vp)
  BY <1>1, WayHolds
<1> DEFINE Met == {k \in Nat : k <= d[p] => up[k + 1] = vp[k]}
<1>4. 0 \in Met
  <2>1. 1 \in 1..MaxNodes /\ 1 <= d[n]
    BY <1>1
  <2>2. up[1] = tree[up[1 - 1]].parent
    BY <1>2, <2>1 DEF Way
  <2> QED BY <1>2, <1>3, <2>2 DEF Way, p
<1>5. ASSUME NEW k \in Met PROVE k + 1 \in Met
  <2> SUFFICES ASSUME k + 1 <= d[p] PROVE up[(k + 1) + 1] = vp[k + 1]
    OBVIOUS
  <2>1. up[k + 1] = vp[k]
    BY <1>1
  <2>2. /\ k + 1 \in 1..MaxNodes /\ (k + 1) - 1 = k
        /\ (k + 1) + 1 \in 1..MaxNodes /\ ((k + 1) + 1) - 1 = k + 1
        /\ (k + 1) + 1 <= d[n]
    BY <1>1
  <2>3. vp[k + 1] = tree[vp[k]].parent
    BY <1>3, <2>2 DEF Way
  <2>4. up[(k + 1) + 1] = tree[up[k + 1]].parent
    BY <1>2, <2>2 DEF Way
  <2> QED BY <2>1, <2>3, <2>4
<1>6. Met = Nat
  <2> HIDE DEF Met
  <2>1. Met \in SUBSET Nat
    BY DEF Met
  <2> QED BY <1>4, <1>5, <2>1, Induction
<1>7. \A k \in 0..d[p] : up[k + 1] = vp[k]
  BY <1>1, <1>6
<1> HIDE DEF Met
<1>8. /\ Above(n) = {up[k] : k \in 0..d[n]} /\ up[0] = n
      /\ Above(p) = {vp[k] : k \in 0..d[p]}
  BY <1>2, <1>3 DEF Way
<1>9. ASSUME NEW m \in Above(n) PROVE m = n \/ m \in Above(p)
  <2>1. PICK k \in 0..d[n] : m = up[k]
    BY <1>8
  <2>2. CASE k # 0
    <3>1. k - 1 \in 0..d[p] /\ (k - 1) + 1 = k
      BY <1>1, <2>2
    <3>2. up[k] = vp[k - 1]
      BY <1>7, <3>1
    <3> QED BY <1>8, <2>1, <3>1, <3>2
  <2> QED BY <1>8, <2>1, <2>2
<1>10. ASSUME NEW m \in Above(p) PROVE m \in Above(n)
  <2>1. PICK k \in 0..d[p] : m = vp[k]
    BY <1>8
  <2>2. k + 1 \in 0..d[n]
    BY <1>1
  <2> QED BY <1>7, <1>8, <2>1, <2>2
<1>11. n \in Above(n)
  BY <1>1, <1>8
<1> QED BY <1>9, <1>10, <1>11 DEF p

\* What is at and below src: with a node also all nodes that lie in it
Closed(S, src) ==
  /\ src \in S /\ S \subseteq Nodes /\ Root \notin S
  /\ \A m \in Nodes \ {Root, src} : m \in S <=> tree[m].parent \in S

\* The subtree of src is closed, not above src, and src alone if it has no children.
LEMMA SubtreeIs ==
  ASSUME NEW d, Rooted(d), NEW src \in Nodes \ {Root}
  PROVE  /\ Closed(Subtree(src), src)
         /\ \A m \in Subtree(src) : d[src] <= d[m]
         /\ (\A c \in Nodes \ {Root} : tree[c].parent # src) => Subtree(src) = {src}
<1>1. src \in Subtree(src) /\ Subtree(src) \subseteq Nodes
  BY AboveNode DEF Subtree
<1>2. Root \notin Subtree(src)
  <2>1. ASSUME src \in Above(Root) PROVE FALSE
    <3>1. Root \in Nodes /\ d[Root] = 0 /\ d[src] \in Nat /\ d[src] # 0
      BY Depths DEF Rooted
    <3>2. d[src] <= d[Root]
      BY <2>1, <3>1, AboveNode
    <3> QED BY <3>1, <3>2
  <2> QED BY <2>1 DEF Subtree
<1>3. ASSUME NEW m \in Nodes \ {Root, src}
      PROVE  m \in Subtree(src) <=> tree[m].parent \in Subtree(src)
  <2>1. Above(m) = {m} \cup Above(tree[m].parent) /\ tree[m].parent \in Nodes
    BY AboveParent, Depths
  <2> QED BY <2>1 DEF Subtree
<1>4. \A m \in Subtree(src) : d[src] <= d[m]
  BY AboveNode DEF Subtree
<1>5. ASSUME \A c \in Nodes \ {Root} : tree[c].parent # src PROVE Subtree(src) = {src}
  <2>1. ASSUME NEW m \in Subtree(src), m # src PROVE FALSE
    <3>1. m \in Nodes /\ src \in Above(m) \ {m}
      BY <2>1 DEF Subtree
    <3> QED BY <1>5, <3>1, AboveNode
  <2> QED BY <1>1, <2>1
<1> QED BY <1>1, <1>2, <1>3, <1>4, <1>5 DEF Closed

-----------------------------------------------------------------------------
\* Nodes that are moved and deleted.

\* vfs_warp: a subtree S is moved to a directory outside of it, with its depths.
LEMMA MovedKeeps ==
  ASSUME NEW t, NEW d, Good(t, d), NEW n \in DOMAIN t \ {Root}, NEW dest \in DOMAIN t,
         t[dest].type = "dir", NEW S \in SUBSET DOMAIN t,
         n \in S, Root \notin S, dest \notin S, \A m \in S : d[n] <= d[m],
         \A m \in DOMAIN t \ {Root, n} : m \in S <=> t[m].parent \in S,
         NEW name \in Seq(Chars), Len(name) \in 1..NameMax, name # BaseName,
         \A m \in DOMAIN t \ {n} : ~(t[m].parent = dest /\ t[m].name = name)
  PROVE  /\ \E e : Good(Moved(t, n, dest, name), e)
         /\ DOMAIN Moved(t, n, dest, name) = DOMAIN t
         /\ \A m \in DOMAIN t : Moved(t, n, dest, name)[m].type = t[m].type
<1> DEFINE D == DOMAIN t
           u == Unlinked(t, n)
           v == WithName(u, n, name)
<1>1. /\ Loose(u, n, d) /\ DOMAIN u = D
      /\ \A m \in D : Same(u[m], t[m]) /\ u[m].parent = t[m].parent
  BY UnlinkKeeps
<1> HIDE DEF u
<1>2. /\ Loose(v, n, d) /\ DOMAIN v = D /\ v[n].name = name
      /\ \A m \in D \ {n} : v[m] = u[m]
      /\ \A m \in D : v[m].type = u[m].type
  BY <1>1, RenameKeeps
<1>3. Moved(t, n, dest, name) = Linked(v, n, dest)
  BY DEF Moved, WithName, u
<1> HIDE DEF v
<1>4. d[dest] + 1 \in Nat /\ dest \in D \ {n} /\ dest \in D \ S
  BY DEF Good, IsDepth
<1>5. \A m \in D \ {Root, n} : m \in S <=> v[m].parent \in S
  BY <1>1, <1>2
<1>6. PICK e : /\ Loose(v, n, e) /\ e[n] = d[dest] + 1
               /\ \A m \in DOMAIN v \ S : e[m] = d[m]
  <2>1. S \in SUBSET DOMAIN v /\ \A m \in DOMAIN v \ {Root, n} : m \in S <=> v[m].parent \in S
    BY <1>2, <1>5
  <2> QED BY <1>2, <1>4, <2>1, DeepenKeeps
<1>7. e[n] = e[dest] + 1
  BY <1>2, <1>4, <1>6
<1>8. v[dest].type = "dir"
  BY <1>1, <1>2 DEF Same
<1>9. \A m \in DOMAIN v \ {n} : ~(v[m].parent = dest /\ v[m].name = v[n].name)
  BY <1>1, <1>2 DEF Same
<1>10. /\ Good(Linked(v, n, dest), e) /\ DOMAIN Linked(v, n, dest) = DOMAIN v
       /\ \A m \in DOMAIN v : Linked(v, n, dest)[m].type = v[m].type
  <2>1. dest \in DOMAIN v \ {n}
    BY <1>2, <1>4
  <2> QED BY <1>6, <1>7, <1>8, <1>9, <2>1, LinkKeeps
<1>11. \A m \in D : v[m].type = t[m].type
  BY <1>1, <1>2 DEF Same
<1> QED BY <1>2, <1>3, <1>10, <1>11

\* vfs_burn: a node without children leaves its list and the heap.
LEMMA DeletedKeeps ==
  ASSUME NEW t, NEW d, Good(t, d), NEW n \in DOMAIN t \ {Root}, t[n].children = <<>>
  PROVE  /\ \E e : /\ Good(Freeing(Unlinked(t, n), {n}), e)
                   /\ \A m \in DOMAIN t \ {n} : e[m] = d[m]
         /\ DOMAIN Freeing(Unlinked(t, n), {n}) = DOMAIN t \ {n}
         /\ \A m \in DOMAIN t \ {n} :
              /\ Same(Freeing(Unlinked(t, n), {n})[m], t[m])
              /\ Freeing(Unlinked(t, n), {n})[m].parent = t[m].parent
<1> DEFINE u == Unlinked(t, n)
<1>1. /\ Loose(u, n, d) /\ DOMAIN u = DOMAIN t /\ u[n].children = <<>>
      /\ \A m \in DOMAIN t : Same(u[m], t[m]) /\ u[m].parent = t[m].parent
  BY UnlinkKeeps
<1> HIDE DEF u
<1>2. /\ \E e : Good(Freeing(u, {n}), e) /\ \A m \in DOMAIN u \ {n} : e[m] = d[m]
      /\ DOMAIN Freeing(u, {n}) = DOMAIN u \ {n}
      /\ \A m \in DOMAIN u \ {n} : Freeing(u, {n})[m] = u[m]
  BY <1>1, DeleteKeeps
<1> QED BY <1>1, <1>2 DEF u

-----------------------------------------------------------------------------
\* What is found in the tree.

\* A whole tree has ways to the root.
LEMMA GoodRooted == ASSUME NEW d, Good(tree, d) PROVE Rooted(d)
  BY DEF Good, Typed, Rooted, Nodes

\* find_child finds the child with the name, if there is one.
LEMMA FindIs ==
  ASSUME NEW d, Good(tree, d), NEW dir \in Nodes, NEW name
  PROVE  /\ Find(dir, name) = None =>
              \A m \in Nodes : ~(tree[m].parent = dir /\ tree[m].name = name)
         /\ Find(dir, name) # None =>
              /\ Find(dir, name) \in Nodes \ {Root}
              /\ tree[Find(dir, name)].parent = dir
              /\ tree[Find(dir, name)].name = name
<1> DEFINE ch == tree[dir].children
           I == {i \in 1..Len(ch) : tree[ch[i]].name = name}
<1>1. I \subseteq 1..Len(ch) /\ I \in SUBSET Nat
  OBVIOUS
<1>2. /\ I = {} => Find(dir, name) = None
      /\ I # {} => Find(dir, name) = IF Min(I) = 0 THEN None ELSE ch[Min(I)]
  BY DEF Find, SelectInSeq
<1>3. \A i \in 1..Len(ch) : ch[i] \in Nodes /\ ch[i] # Root /\ tree[ch[i]].parent = dir
  <2>1. dir # None /\ tree[Root].parent = None
    BY BoundsAssumption DEF Good, Typed, ParentKnows, Nodes, None
  <2> QED BY <2>1 DEF Good, ChildrenKnow, Nodes
<1>4. None \notin Nodes
  BY BoundsAssumption DEF Good, Typed, Nodes, None
<1>5. ASSUME I # {}
      PROVE  /\ Find(dir, name) # None /\ Find(dir, name) \in Nodes \ {Root}
             /\ tree[Find(dir, name)].parent = dir /\ tree[Find(dir, name)].name = name
  <2> DEFINE k == Min(I)
  <2>1. k \in I
    <3> HIDE DEF I
    <3> QED BY <1>1, <1>5, MinIs
  <2> HIDE DEF k
  <2>2. k \in 1..Len(ch) /\ tree[ch[k]].name = name /\ k # 0
    BY <2>1
  <2>3. Find(dir, name) = ch[k]
    BY <1>2, <1>5, <2>2 DEF k
  <2> HIDE DEF I, ch
  <2> QED BY <1>3, <1>4, <2>2, <2>3
<1>6. ASSUME I = {}, NEW m \in Nodes, tree[m].parent = dir, tree[m].name = name PROVE FALSE
  <2>1. m # Root
    BY <1>4, <1>6 DEF Good, ParentKnows
  <2>2. Contains(ch, m)
    BY <1>6, <2>1 DEF Good, ParentKnows, Nodes
  <2> QED BY <1>6, <2>2 DEF Contains
<1> QED BY <1>2, <1>5, <1>6

\* Only directories have children.
LEMMA ParentIsDir ==
  ASSUME NEW d, Good(tree, d), NEW n \in Nodes \ {Root}
  PROVE  tree[n].parent \in Nodes /\ IsDir(tree[n].parent)
<1>1. tree[n].parent \in Nodes /\ Contains(tree[tree[n].parent].children, n)
  BY DEF Good, ParentKnows, Nodes
<1>2. tree[tree[n].parent].type \in {"dir", "file"} /\ GoodNode(tree[tree[n].parent])
  BY <1>1 DEF Good, Typed, Nodes, NodeRecord
<1> QED BY <1>1, <1>2 DEF GoodNode, Contains, IsDir

\* A directory, or none
IsPlace(n) == n = None \/ (n \in Nodes /\ IsDir(n))

\* A part of a path leads from a directory to a directory.
LEMMA EnterIs ==
  ASSUME NEW d, Good(tree, d), NEW dir, IsPlace(dir), NEW part
  PROVE  IsPlace(Enter(dir, part))
<1>1. CASE dir = None
  BY <1>1 DEF Enter, IsPlace
<1>2. CASE dir # None
  <2>1. dir \in Nodes /\ IsDir(dir)
    BY <1>2 DEF IsPlace
  <2>2. tree[dir].parent # None => IsPlace(tree[dir].parent)
    BY <2>1, ParentIsDir DEF IsPlace, Good, ParentKnows
  <2>3. Find(dir, part) # None => Find(dir, part) \in Nodes
    BY <2>1, FindIs
  <2> QED BY <1>2, <2>1, <2>2, <2>3 DEF Enter, IsPlace
<1> QED BY <1>1, <1>2

\* The first m parts of a path
At(path, m, g) ==
  g = [k \in 0..m |->
         IF k = 0 THEN IF IsAbsolute(path) THEN Root ELSE cwd
         ELSE Enter(g[k - 1], path.parts[k])]

\* resolve_dir_path returns a directory: by induction on the parts.
LEMMA ResolveIs ==
  ASSUME NEW d, Good(tree, d), IsPlace(cwd), IsPlace(Root), NEW path \in Targets
  PROVE  IsPlace(Resolve(path))
<1> DEFINE last == Len(path.parts)
           Some == {m \in Nat : \E g : At(path, m, g)}
           first == IF IsAbsolute(path) THEN Root ELSE cwd
<1>1. last \in Nat
  BY TypedAssumption
<1>2. 0 \in Some
  <2>1. At(path, 0, [k \in 0..0 |-> first])
    BY DEF At
  <2> QED BY <2>1
<1>3. ASSUME NEW m \in Some PROVE m + 1 \in Some
  <2>1. PICK g : At(path, m, g)
    OBVIOUS
  <2> DEFINE h == [k \in 0..m + 1 |->
                     IF k \in 0..m THEN g[k] ELSE Enter(g[m], path.parts[m + 1])]
             s == [k \in 0..m + 1 |-> IF k = 0 THEN first ELSE Enter(h[k - 1], path.parts[k])]
  <2>2. ASSUME NEW k \in 0..m + 1 PROVE h[k] = s[k]
    <3>1. CASE k = 0
      BY <2>1, <3>1 DEF At
    <3>2. CASE k \in 1..m
      <4>1. g[k] = Enter(g[k - 1], path.parts[k])
        BY <2>1, <3>2 DEF At
      <4> QED BY <3>2, <4>1
    <3>3. CASE k = m + 1
      BY <3>3
    <3> QED BY <3>1, <3>2, <3>3
  <2>3. h = s
    BY <2>2
  <2>4. At(path, m + 1, h)
    BY <2>3 DEF At
  <2> QED BY <2>4
<1>4. Some = Nat
  <2> HIDE DEF Some
  <2>1. Some \in SUBSET Nat
    BY DEF Some
  <2> QED BY <1>2, <1>3, <2>1, Induction
<1> DEFINE at == CHOOSE g : At(path, last, g)
<1>5. At(path, last, at)
  BY <1>1, <1>4
<1>6. Resolve(path) = at[last]
  BY DEF Resolve, At
<1> HIDE DEF at, Some
<1>7. /\ IsPlace(at[0])
      /\ \A k \in 1..last : at[k] = Enter(at[k - 1], path.parts[k])
  BY <1>1, <1>5 DEF At
<1> DEFINE Met == {k \in Nat : k <= last => IsPlace(at[k])}
<1>8. 0 \in Met
  BY <1>7
<1>9. ASSUME NEW k \in Met PROVE k + 1 \in Met
  <2> SUFFICES ASSUME k + 1 <= last PROVE IsPlace(at[k + 1])
    OBVIOUS
  <2>1. IsPlace(at[k]) /\ k + 1 \in 1..last /\ (k + 1) - 1 = k
    BY <1>1
  <2>2. at[k + 1] = Enter(at[k], path.parts[k + 1])
    BY <1>7, <2>1
  <2> QED BY <2>1, <2>2, EnterIs
<1>10. Met = Nat
  <2> HIDE DEF Met
  <2>1. Met \in SUBSET Nat
    BY DEF Met
  <2> QED BY <1>8, <1>9, <2>1, Induction
<1> QED BY <1>1, <1>6, <1>10

-----------------------------------------------------------------------------
\* Names.

\* A name that is cut is as long as a node's name can be.
LEMMA CutIs ==
  ASSUME NEW S, NEW name \in Seq(S)
  PROVE  /\ Cut(name) \in Seq(S)
         /\ Len(name) <= NameMax => Cut(name) = name
         /\ Len(name) > NameMax => Len(Cut(name)) = NameMax
<1>1. NameMax \in Nat /\ Len(name) \in Nat /\ \A i \in 1..Len(name) : name[i] \in S
  BY BoundsAssumption
<1>2. ASSUME Len(name) <= NameMax PROVE Cut(name) = name
  BY <1>2 DEF Cut
<1>3. ASSUME Len(name) > NameMax PROVE Cut(name) \in Seq(S) /\ Len(Cut(name)) = NameMax
  <2>1. Cut(name) = SubSeq(name, 1, NameMax)
    BY <1>1, <1>3 DEF Cut
  <2>2. \A i \in 1..NameMax : name[i] \in S
    BY <1>1, <1>3
  <2>3. SubSeq(name, 1, NameMax) \in Seq(S) /\ Len(SubSeq(name, 1, NameMax)) = NameMax
    BY <1>1, <2>2
  <2> QED BY <2>1, <2>3
<1>4. Len(name) <= NameMax \/ Len(name) > NameMax
  BY <1>1
<1> QED BY <1>2, <1>3, <1>4

\* A plain name is not cut.
LEMMA NamesPlain ==
  ASSUME PlainNames, NEW name \in Names
  PROVE  /\ name \in Seq(Chars) /\ Cut(name) = name
         /\ Len(name) \in 1..NameMax /\ name # BaseName
<1>1. name \in Seq(STRING) /\ STRING \subseteq Chars
  BY TypedAssumption DEF Chars
<1>2. name \in Seq(Chars)
  <2> DEFINE S == STRING
             T == Chars
  <2> HIDE DEF S, T
  <2>1. name \in Seq(S) /\ S \subseteq T
    BY <1>1 DEF S, T
  <2>2. name \in Seq(T)
    BY <2>1
  <2> QED BY <2>2 DEF T
<1>3. Len(name) \in 1..NameMax /\ name # BaseName
  BY DEF PlainNames
<1>4. Len(name) <= NameMax
  BY <1>3, BoundsAssumption
<1>5. Cut(name) = name
  BY <1>2, <1>4, CutIs
<1> QED BY <1>2, <1>3, <1>5

\* make_renamed_name makes names of two and more characters that fit into a node.
LEMMA RenamedIs ==
  ASSUME NEW name \in Seq(Chars), NEW i \in 1..MaxNodes
  PROVE  /\ Renamed(name, i) \in Seq(Chars) /\ Len(Renamed(name, i)) \in 1..NameMax
         /\ Renamed(name, i) # BaseName
<1> DEFINE dots == {k \in DOMAIN name : name[k] = Dot}
           dot  == IF dots = {} THEN Len(name) + 1 ELSE Max(dots)
           stem == SubSeq(name, 1, dot - 1)
           mark == IF Len(stem) + 1 < NameMax THEN <<"_">> ELSE <<>>
           rest == SubSeq(name, dot, Len(name))
<1>1. Len(name) \in Nat /\ NameMax \in Nat /\ NameMax > 1
      /\ DOMAIN name = 1..Len(name) /\ \A k \in 1..Len(name) : name[k] \in Chars
  BY BoundsAssumption
<1>2. dot \in 1..Len(name) + 1
  <2>1. dots \in SUBSET (1..Len(name))
    BY <1>1
  <2> HIDE DEF dots
  <2>2. dots # {} => Max(dots) \in dots
    BY <1>1, <2>1, MaxIs
  <2>3. CASE dots = {}
    BY <1>1, <2>3
  <2>4. CASE dots # {}
    <3>1. dot \in 1..Len(name)
      BY <2>1, <2>2, <2>4
    <3> QED BY <1>1, <3>1
  <2> QED BY <2>3, <2>4
<1>3. Renamed(name, i) = Cut(stem \o mark \o <<Digits[i]>> \o rest)
  BY DEF Renamed
<1> HIDE DEF dot
<1>4. stem \in Seq(Chars) /\ Len(stem) \in Nat
  <2>1. dot - 1 \in Nat /\ \A k \in 1..dot - 1 : name[k] \in Chars
    BY <1>1, <1>2
  <2> QED BY <2>1
<1>5. rest \in Seq(Chars) /\ Len(rest) \in Nat
  <2>1. dot \in Nat /\ dot >= 1 /\ \A k \in dot..Len(name) : name[k] \in Chars
    BY <1>1, <1>2
  <2> QED BY <1>1, <2>1
<1> HIDE DEF stem, rest
<1>6. /\ mark \in Seq(Chars) /\ Len(mark) \in Nat
      /\ Len(stem) = 0 => Len(mark) = 1
  <2>1. "_" \in Chars
    BY DEF Chars
  <2>2. CASE Len(stem) + 1 < NameMax
    <3> DEFINE c == "_"
    <3>1. mark = <<c>> /\ c \in Chars
      BY <2>1, <2>2
    <3> HIDE DEF mark, c
    <3> QED BY <3>1
  <2>3. CASE ~(Len(stem) + 1 < NameMax)
    <3>1. mark = <<>> /\ Len(stem) # 0
      BY <1>1, <1>4, <2>3
    <3> HIDE DEF mark
    <3> QED BY <3>1
  <2> QED BY <2>2, <2>3
<1>7. <<Digits[i]>> \in Seq(Chars) /\ Len(<<Digits[i]>>) = 1
  <2>1. Digits[i] \in Chars
    BY DEF Chars
  <2> QED BY <2>1
<1> HIDE DEF mark
<1> DEFINE whole == stem \o mark \o <<Digits[i]>> \o rest
<1>8. whole \in Seq(Chars) /\ Len(whole) = Len(stem) + Len(mark) + 1 + Len(rest)
  BY <1>4, <1>5, <1>6, <1>7
<1> HIDE DEF whole
<1>9. Len(whole) \in Nat /\ Len(whole) >= 2
  BY <1>4, <1>5, <1>6, <1>8
<1>10. Cut(whole) \in Seq(Chars) /\ Len(Cut(whole)) \in 2..NameMax
  <2>1. /\ Cut(whole) \in Seq(Chars)
        /\ Len(whole) <= NameMax => Cut(whole) = whole
        /\ Len(whole) > NameMax => Len(Cut(whole)) = NameMax
    BY <1>8, CutIs
  <2>2. Len(whole) <= NameMax \/ Len(whole) > NameMax
    BY <1>1, <1>9
  <2> QED BY <1>1, <1>9, <2>1, <2>2
<1>11. Len(BaseName) = 1
  BY DEF BaseName
<1>12. Renamed(name, i) = Cut(whole)
  BY <1>3 DEF whole
<1> HIDE DEF whole
<1>13. Cut(whole) # BaseName /\ Len(Cut(whole)) \in 1..NameMax
  <2>1. Len(Cut(whole)) # Len(BaseName)
    <3>1. Len(Cut(whole)) >= 2
      BY <1>1, <1>10
    <3> QED BY <1>11, <3>1
  <2>2. Cut(whole) # BaseName
    BY <2>1, Zenon
  <2> QED BY <1>1, <1>10, <2>2
<1> QED BY <1>10, <1>12, <1>13

-----------------------------------------------------------------------------
\* The inductive invariant.

IInv == (\E d : Good(tree, d)) /\ RestInv

\* The tree t is whole and has the working directory.
Kept(t) ==
  /\ \E d : Good(t, d)
  /\ cwd \in DOMAIN t /\ t[cwd].type = "dir" /\ t[Root].type = "dir"

\* vfs_init makes a whole tree.
LEMMA FirstKept == (\E d : Good(FirstTree, d)) /\ 2 \in DOMAIN FirstTree
                   /\ FirstTree[2].type = "dir" /\ FirstTree[Root].type = "dir"
<1> DEFINE t == FirstTree
           d == [n \in 0..2 |-> n]
<1>1. /\ RootName \in Seq(Chars) /\ RootDirName \in Seq(Chars) /\ BaseName \in Seq(Chars)
      /\ Len(RootName) = 1 /\ Len(RootDirName) = 1 /\ Len(BaseName) = 1
  <2>1. "P" \in Chars /\ "r" \in Chars /\ "b" \in Chars
    BY DEF Chars
  <2> QED BY <2>1 DEF RootName, RootDirName, BaseName
<1>2. RootName # RootDirName /\ RootName # BaseName /\ RootDirName # BaseName
  BY DEF RootName, RootDirName, BaseName
<1> HIDE DEF t, d
<1>3. DOMAIN t = 0..2
  BY DEF t, FirstTree
<1>4. /\ t[0] = [NewNode("dir", RootName, None) EXCEPT !.children = <<1>>]
      /\ t[1] = [NewNode("dir", RootDirName, 0) EXCEPT !.children = <<2>>]
      /\ t[2] = NewNode("dir", BaseName, 1)
  BY DEF t, FirstTree
<1>5. /\ t[0] \in NodeRecord /\ t[0].children = <<1>> /\ t[0].parent = None
      /\ t[0].name = RootName /\ t[0].type = "dir" /\ t[0].learned = FALSE
  <2> DEFINE new == NewNode("dir", RootName, None)
  <2>1. /\ new \in NodeRecord /\ new.name = RootName /\ new.parent = None
        /\ new.type = "dir" /\ new.learned = FALSE
    BY <1>1 DEF NewNode, NodeRecord, None
  <2> HIDE DEF new
  <2> DEFINE x == <<1>>
  <2>2. x \in Seq(Int)
    OBVIOUS
  <2>3. t[0] = [new EXCEPT !.children = x]
    BY <1>4 DEF new
  <2> HIDE DEF x
  <2>5. /\ t[0] \in NodeRecord /\ t[0].children = x
        /\ t[0].parent = new.parent /\ Same(t[0], new)
    BY <2>1, <2>2, <2>3, ChildrenSet
  <2>4. /\ t[0] \in NodeRecord /\ t[0].children = <<1>>
        /\ t[0].parent = new.parent /\ Same(t[0], new)
    BY <2>5 DEF x
  <2> QED BY <2>1, <2>4 DEF Same
<1>6. /\ t[1] \in NodeRecord /\ t[1].children = <<2>> /\ t[1].parent = 0
      /\ t[1].name = RootDirName /\ t[1].type = "dir" /\ t[1].learned = FALSE
  <2> DEFINE new == NewNode("dir", RootDirName, 0)
  <2>1. /\ new \in NodeRecord /\ new.name = RootDirName /\ new.parent = 0
        /\ new.type = "dir" /\ new.learned = FALSE
    BY <1>1 DEF NewNode, NodeRecord
  <2> HIDE DEF new
  <2> DEFINE x == <<2>>
  <2>2. x \in Seq(Int)
    OBVIOUS
  <2>3. t[1] = [new EXCEPT !.children = x]
    BY <1>4 DEF new
  <2> HIDE DEF x
  <2>5. /\ t[1] \in NodeRecord /\ t[1].children = x
        /\ t[1].parent = new.parent /\ Same(t[1], new)
    BY <2>1, <2>2, <2>3, ChildrenSet
  <2>4. /\ t[1] \in NodeRecord /\ t[1].children = <<2>>
        /\ t[1].parent = new.parent /\ Same(t[1], new)
    BY <2>5 DEF x
  <2> QED BY <2>1, <2>4 DEF Same
<1>7. /\ t[2] \in NodeRecord /\ t[2].children = <<>> /\ t[2].parent = 1
      /\ t[2].name = BaseName /\ t[2].type = "dir" /\ t[2].learned = FALSE
  BY <1>1, <1>4 DEF NewNode, NodeRecord
<1>8. t \in [0..2 -> NodeRecord]
  <2>1. t = [n \in 0..2 |-> t[n]]
    BY DEF t, FirstTree
  <2>2. \A n \in 0..2 : t[n] \in NodeRecord
    BY <1>5, <1>6, <1>7
  <2> QED BY <2>1, <2>2
<1>9. Typed(t)
  BY <1>3, <1>8, BoundsAssumption DEF Typed, Root
<1>10. \A n \in 0..2 : n = 0 \/ n = 1 \/ n = 2
  OBVIOUS
<1>11. \A n \in 0..2 : GoodNode(t[n])
  <2>1. 1 \in 1..NameMax
    BY BoundsAssumption
  <2> QED BY <1>1, <1>5, <1>6, <1>7, <1>10, <2>1 DEF GoodNode
<1>12. ChildrenKnow(t) /\ ListedOnce(t)
  BY <1>3, <1>5, <1>6, <1>7, <1>10 DEF ChildrenKnow, ListedOnce, IsInjective
<1>13. ParentKnows(t)
  <2>1. Contains(<<1>>, 1) /\ Contains(<<2>>, 2)
    BY DEF Contains
  <2> QED BY <1>3, <1>5, <1>6, <1>7, <1>10, <2>1 DEF ParentKnows, Root
<1>14. Distinct(t)
  BY <1>3, <1>5, <1>6, <1>7, <1>10 DEF Distinct, None
<1>15. IsDepth(t, d)
  <2>1. d \in [0..2 -> Nat] /\ d[0] = 0 /\ d[1] = 1 /\ d[2] = 2
    BY DEF d
  <2> QED BY <1>3, <1>6, <1>7, <1>10, <2>1 DEF IsDepth, Root
<1>16. Good(t, d)
  BY <1>3, <1>9, <1>11, <1>12, <1>13, <1>14, <1>15 DEF Good
<1> QED BY <1>3, <1>5, <1>7, <1>16 DEF t, Root

\* mkdir and fab keep the tree whole.
LEMMA AddedKept ==
  ASSUME IInv, PlainNames, NEW type \in {"dir", "file"}, NEW name \in Names,
         Added(type, name)
  PROVE  /\ Kept(tree')
         /\ Unused \notin Nodes /\ DOMAIN tree' = Nodes \cup {Unused}
         /\ Stay(tree, tree', Nodes) /\ tree'[Unused].parent = cwd
<1>1. PICK d : Good(tree, d)
  BY DEF IInv
<1> DEFINE n == Unused
           t == With(tree, n, NewNode(type, Cut(name), cwd))
<1>2. n \in 0..MaxNodes \ Nodes
  <2>1. 0..MaxNodes \ Nodes \in SUBSET Nat
    OBVIOUS
  <2>2. 0..MaxNodes \ Nodes # {}
    <3>1. SUFFICES ASSUME 0..MaxNodes \ Nodes = {} PROVE FALSE
      OBVIOUS
    <3>2. Nodes = 0..MaxNodes
      BY <1>1, <3>1 DEF Good, Typed, Nodes
    <3>3. MaxNodes \in Nat /\ Cardinality(Nodes) = MaxNodes + 1
      BY <3>2, FS_Interval, BoundsAssumption
    <3>4. Cardinality(Nodes) < MaxNodes
      BY DEF Added
    <3> QED BY <3>3, <3>4
  <2> QED BY <2>1, <2>2, MinIs DEF Unused
<1>3. cwd \in Nodes /\ tree[cwd].type = "dir" /\ tree[Root].type = "dir" /\ Root \in Nodes
      /\ n # Root /\ n # cwd
  BY <1>1, <1>2 DEF IInv, RestInv, IsDir, Good, Typed, Nodes
<1>4. /\ Cut(name) = name /\ name \in Seq(Chars) /\ Len(name) \in 1..NameMax
      /\ name # BaseName
  BY NamesPlain
<1>5. \A m \in Nodes : ~(tree[m].parent = cwd /\ tree[m].name = name)
  BY <1>1, <1>3, FindIs DEF Added
<1>6. tree' = Linked(t, n, cwd)
  BY DEF Added
<1> HIDE DEF n
<1> DEFINE new == NewNode(type, Cut(name), cwd)
<1>7. new \in NodeRecord /\ GoodNode(new) /\ new.children = <<>> /\ new.name = name
  <2>1. cwd \in Int
    BY <1>1, <1>3, BoundsAssumption DEF Good, Typed, Nodes
  <2>2. /\ new \in NodeRecord /\ new.children = <<>> /\ new.name = name
        /\ new.learned = FALSE
    BY <1>4, <2>1 DEF NewNode, NodeRecord
  <2> HIDE DEF new
  <2> QED BY <1>4, <2>2 DEF GoodNode
<1> HIDE DEF new
<1>12. /\ DOMAIN t = Nodes \cup {n} /\ t[n] = new
       /\ \A m \in Nodes : t[m] = tree[m]
       /\ Hangs(t, n, cwd)
  <2>1. n \in 0..MaxNodes \ DOMAIN tree /\ cwd \in DOMAIN tree
    BY <1>2, <1>3 DEF Nodes
  <2>2. t = With(tree, n, new)
    BY DEF new
  <2> HIDE DEF t
  <2>3. Good(tree, d) /\ new \in NodeRecord /\ GoodNode(new) /\ new.children = <<>>
    BY <1>1, <1>7
  <2>4. /\ DOMAIN With(tree, n, new) = DOMAIN tree \cup {n} /\ With(tree, n, new)[n] = new
        /\ \A m \in DOMAIN tree : With(tree, n, new)[m] = tree[m]
        /\ Hangs(With(tree, n, new), n, cwd)
    BY <2>1, <2>3, AddLoose
  <2>5. Nodes = DOMAIN tree
    BY DEF Nodes
  <2> QED BY <2>2, <2>4, <2>5, Zenon
<1> HIDE DEF t
<1>8. PICK e : Loose(t, n, e) /\ e[n] = e[cwd] + 1
  BY <1>12 DEF Hangs
<1>9. cwd \in DOMAIN t \ {n} /\ t[cwd].type = "dir"
  BY <1>3, <1>12
<1>10. \A m \in DOMAIN t \ {n} : ~(t[m].parent = cwd /\ t[m].name = t[n].name)
  BY <1>5, <1>7, <1>12
<1>11. /\ Good(Linked(t, n, cwd), e) /\ DOMAIN Linked(t, n, cwd) = DOMAIN t
       /\ \A m \in DOMAIN t : Linked(t, n, cwd)[m].type = t[m].type
  BY <1>8, <1>9, <1>10, LinkKeeps
<1>13. /\ \A m \in DOMAIN t : Same(tree'[m], t[m])
       /\ \A m \in DOMAIN t \ {n} : tree'[m].parent = t[m].parent
       /\ tree'[n].parent = cwd
  <2> DEFINE D == DOMAIN t
  <2>1. D \in SUBSET Int /\ t \in [D -> NodeRecord] /\ n \in D /\ cwd \in D
    BY <1>2, <1>8, <1>9, <1>12 DEF Loose, Typed
  <2> HIDE DEF D
  <2>2. LinkedTo(t, Linked(t, n, cwd), D, n, cwd)
    BY <2>1, LinkedMoves
  <2>3. LinkedTo(t, tree', D, n, cwd)
    BY <1>6, <2>2
  <2> QED BY <2>3 DEF D, LinkedTo
<1>14. Stay(tree, tree', Nodes)
  BY <1>2, <1>12, <1>13 DEF Stay, Same
<1>15. Kept(tree')
  BY <1>3, <1>6, <1>11, <1>12 DEF Kept
<1> QED BY <1>2, <1>6, <1>11, <1>12, <1>13, <1>14, <1>15 DEF n

-----------------------------------------------------------------------------
\* What is moved and what is deleted.

\* A node with an empty list is no one's parent.
LEMMA NoChild ==
  ASSUME NEW d, Good(tree, d), NEW e \in Nodes, tree[e].children = <<>>
  PROVE  /\ \A c \in Nodes \ {Root} : tree[c].parent # e
         /\ e # Root => Subtree(e) = {e}
<1>1. ASSUME NEW c \in Nodes \ {Root}, tree[c].parent = e PROVE FALSE
  <2>1. Contains(tree[e].children, c)
    BY <1>1 DEF Good, ParentKnows, Nodes
  <2> QED BY <2>1 DEF Contains
<1>2. ASSUME e # Root PROVE Subtree(e) = {e}
  <2>1. Rooted(d) /\ e \in Nodes \ {Root}
    BY <1>2, GoodRooted
  <2>2. \A c \in Nodes \ {Root} : tree[c].parent # e
    BY <1>1
  <2> QED BY <2>1, <2>2, SubtreeIs
<1> QED BY <1>1, <1>2

\* src can be moved into dest.
Movable(d, src, dest) ==
  /\ src \in Nodes \ {Root} /\ tree[src].parent = cwd /\ src # cwd
  /\ dest \in Nodes /\ IsDir(dest)
  /\ Closed(Subtree(src), src) /\ \A m \in Subtree(src) : d[src] <= d[m]
  /\ dest \notin Subtree(src)

\* What is_ancestor lets through can be moved.
LEMMA WarpMoves ==
  ASSUME IInv, PlainNames, NEW d, Good(tree, d), NEW name \in Names, NEW path \in Targets,
         CanWarp(name, path)
  PROVE  /\ Movable(d, Find(cwd, Cut(name)), Resolve(path))
         /\ tree[Find(cwd, Cut(name))].name = name
<1> DEFINE src == Find(cwd, Cut(name))
           dest == Resolve(path)
<1>1. /\ Cut(name) = name /\ cwd \in Nodes
      /\ src # None /\ dest # None /\ IsDir(dest) /\ ~IsBusy(src, dest)
  BY NamesPlain DEF CanWarp, IInv, RestInv
<1>2. IsPlace(cwd) /\ IsPlace(Root) /\ Rooted(d)
  <2>1. Rooted(d)
    BY GoodRooted
  <2> QED BY <2>1 DEF IInv, RestInv, IsPlace, Rooted
<1>3. src \in Nodes \ {Root} /\ tree[src].parent = cwd /\ tree[src].name = name
  <2>1. Find(cwd, name) # None =>
          /\ Find(cwd, name) \in Nodes \ {Root}
          /\ tree[Find(cwd, name)].parent = cwd /\ tree[Find(cwd, name)].name = name
    BY <1>1, FindIs
  <2> QED BY <1>1, <2>1
<1>4. dest \in Nodes
  <2>1. IsPlace(dest)
    BY <1>2, ResolveIs
  <2> QED BY <1>1, <2>1 DEF IsPlace
<1> HIDE DEF src, dest
<1>5. src # cwd
  <2>1. cwd \in Nodes /\ d[cwd] \in Nat /\ d[src] \in Nat /\ d[cwd] = d[src] - 1
    BY <1>1, <1>2, <1>3, Depths
  <2> QED BY <2>1
<1>6. /\ Closed(Subtree(src), src) /\ \A m \in Subtree(src) : d[src] <= d[m]
      /\ (\A c \in Nodes \ {Root} : tree[c].parent # src) => Subtree(src) = {src}
  BY <1>2, <1>3, SubtreeIs
<1>7. dest \notin Subtree(src)
  <2>1. CASE IsDir(src)
    BY <1>1, <2>1 DEF IsBusy, Subtree
  <2>2. CASE ~IsDir(src)
    <3>1. tree[src].children = <<>>
      BY <1>3, <2>2 DEF Good, Typed, NodeRecord, GoodNode, IsDir, Nodes
    <3>2. \A c \in Nodes \ {Root} : tree[c].parent # src
      BY <1>3, <3>1, NoChild
    <3> QED BY <1>1, <1>6, <3>2 DEF IsBusy
  <2> QED BY <2>1, <2>2
<1>8. Movable(d, src, dest)
  BY <1>1, <1>3, <1>4, <1>5, <1>6, <1>7 DEF Movable
<1> QED BY <1>3, <1>8 DEF src, dest

\* A warp without a conflict keeps the tree whole.
LEMMA MovedKept ==
  ASSUME IInv, NEW d, Good(tree, d), NEW src, NEW dest, Movable(d, src, dest),
         NEW name \in Seq(Chars), Len(name) \in 1..NameMax, name # BaseName,
         \A m \in Nodes \ {src} : ~(tree[m].parent = dest /\ tree[m].name = name)
  PROVE  Kept(Moved(tree, src, dest, name))
<1>1. /\ cwd \in Nodes /\ tree[cwd].type = "dir" /\ tree[Root].type = "dir"
      /\ Root \in Nodes /\ Nodes = DOMAIN tree
  BY DEF IInv, RestInv, IsDir, Good, Typed, Nodes
<1> DEFINE S == Subtree(src)
<1>2. /\ src \in DOMAIN tree \ {Root} /\ dest \in DOMAIN tree /\ tree[dest].type = "dir"
      /\ S \in SUBSET DOMAIN tree /\ src \in S /\ Root \notin S /\ dest \notin S
      /\ \A m \in S : d[src] <= d[m]
  BY <1>1 DEF Movable, Closed, IsDir
<1>3. \A m \in DOMAIN tree \ {Root, src} : m \in S <=> tree[m].parent \in S
  BY <1>1 DEF Movable, Closed
<1> HIDE DEF S
<1>4. \A m \in DOMAIN tree \ {src} : ~(tree[m].parent = dest /\ tree[m].name = name)
  BY <1>1
<1>5. /\ \E e : Good(Moved(tree, src, dest, name), e)
      /\ DOMAIN Moved(tree, src, dest, name) = DOMAIN tree
      /\ \A m \in DOMAIN tree : Moved(tree, src, dest, name)[m].type = tree[m].type
  BY <1>2, <1>3, <1>4, MovedKeeps
<1> QED BY <1>1, <1>5 DEF Kept

\* vfs_burn keeps the tree whole.
LEMMA BurntKept ==
  ASSUME IInv, NEW d, Good(tree, d), NEW n \in Nodes \ {Root}, tree[n].children = <<>>,
         n # cwd
  PROVE  Kept(Freeing(Unlinked(tree, n), Subtree(n)))
<1>1. /\ cwd \in Nodes /\ tree[cwd].type = "dir" /\ tree[Root].type = "dir"
      /\ Root \in Nodes /\ Nodes = DOMAIN tree
  BY DEF IInv, RestInv, IsDir, Good, Typed, Nodes
<1>2. Subtree(n) = {n}
  BY NoChild
<1> DEFINE u == Freeing(Unlinked(tree, n), {n})
<1>3. /\ \E e : /\ Good(u, e)
                /\ \A m \in DOMAIN tree \ {n} : e[m] = d[m]
      /\ DOMAIN u = DOMAIN tree \ {n}
      /\ \A m \in DOMAIN tree \ {n} : Same(u[m], tree[m]) /\ u[m].parent = tree[m].parent
  BY <1>1, DeletedKeeps
<1> HIDE DEF u
<1>4. u[cwd].type = "dir" /\ u[Root].type = "dir" /\ cwd \in DOMAIN u
  BY <1>1, <1>3 DEF Same
<1>5. Kept(u)
  BY <1>3, <1>4 DEF Kept
<1> QED BY <1>2, <1>5 DEF u

\* A warp that replaces a node keeps the tree whole, and does not free what it moves.
LEMMA ReplacedKept ==
  ASSUME IInv, NEW d, Good(tree, d), NEW src, NEW dest, Movable(d, src, dest),
         NEW name \in Seq(Chars), Len(name) \in 1..NameMax, name # BaseName,
         NEW e \in Nodes \ {Root}, e # src, tree[e].children = <<>>,
         tree[e].parent = dest, tree[e].name = name
  PROVE  /\ src \notin Subtree(e)
         /\ Kept(Moved(Freeing(Unlinked(tree, e), Subtree(e)), src, dest, name))
<1>1. /\ cwd \in Nodes /\ tree[cwd].type = "dir" /\ tree[Root].type = "dir"
      /\ Root \in Nodes /\ Nodes = DOMAIN tree
  BY DEF IInv, RestInv, IsDir, Good, Typed, Nodes
<1>2. Subtree(e) = {e} /\ \A c \in Nodes \ {Root} : tree[c].parent # e
  BY NoChild
<1> DEFINE u == Freeing(Unlinked(tree, e), {e})
           S == Subtree(src) \ {e}
<1>3. /\ \E f : Good(u, f) /\ \A m \in DOMAIN tree \ {e} : f[m] = d[m]
      /\ DOMAIN u = DOMAIN tree \ {e}
      /\ \A m \in DOMAIN tree \ {e} : Same(u[m], tree[m]) /\ u[m].parent = tree[m].parent
  BY <1>1, DeletedKeeps
<1> HIDE DEF u
<1>4. PICK f : Good(u, f) /\ \A m \in DOMAIN tree \ {e} : f[m] = d[m]
  BY <1>3
<1>5. e # cwd /\ e # dest
  <2>1. e # cwd
    BY <1>2 DEF Movable
  <2>2. Rooted(d)
    BY GoodRooted
  <2>3. dest \in Nodes /\ d[dest] \in Nat /\ d[e] \in Nat /\ d[dest] = d[e] - 1
    BY <2>2, Depths DEF Movable
  <2>4. e # dest
    BY <2>3
  <2> QED BY <2>1, <2>4
<1>6. /\ src \in DOMAIN u \ {Root} /\ dest \in DOMAIN u /\ u[dest].type = "dir"
      /\ S \in SUBSET DOMAIN u /\ src \in S /\ Root \notin S /\ dest \notin S
  BY <1>1, <1>3, <1>5 DEF Movable, Closed, IsDir, Same
<1>7. \A m \in S : f[src] <= f[m]
  BY <1>1, <1>3, <1>4, <1>6 DEF Movable
<1>8. \A m \in DOMAIN u \ {Root, src} : m \in S <=> u[m].parent \in S
  <2> TAKE m \in DOMAIN u \ {Root, src}
  <2>1. m \in Nodes \ {Root, src} /\ m # e /\ u[m].parent = tree[m].parent
    BY <1>1, <1>3
  <2>2. tree[m].parent # e
    BY <1>2, <2>1
  <2>3. m \in Subtree(src) <=> tree[m].parent \in Subtree(src)
    BY <2>1 DEF Movable, Closed
  <2> QED BY <2>1, <2>2, <2>3
<1>9. \A m \in DOMAIN u \ {src} : ~(u[m].parent = dest /\ u[m].name = name)
  <2> SUFFICES ASSUME NEW m \in DOMAIN u, u[m].parent = dest, u[m].name = name PROVE FALSE
    OBVIOUS
  <2>1. /\ m \in Nodes /\ m # e /\ tree[m].parent = tree[e].parent
        /\ tree[m].name = tree[e].name
    BY <1>1, <1>3 DEF Same
  <2> QED BY <1>1, <2>1 DEF Good, Distinct
<1> HIDE DEF S
<1>10. /\ \E g : Good(Moved(u, src, dest, name), g)
       /\ DOMAIN Moved(u, src, dest, name) = DOMAIN u
       /\ \A m \in DOMAIN u : Moved(u, src, dest, name)[m].type = u[m].type
  BY <1>4, <1>6, <1>7, <1>8, <1>9, MovedKeeps
<1>11. u[cwd].type = "dir" /\ u[Root].type = "dir" /\ cwd \in DOMAIN u /\ Root \in DOMAIN u
  BY <1>1, <1>3, <1>5 DEF Same
<1>12. Kept(Moved(u, src, dest, name))
  BY <1>10, <1>11 DEF Kept
<1> QED BY <1>2, <1>12 DEF u

-----------------------------------------------------------------------------
\* Steps.

\* A sequence that is mapped stays one.
LEMMA SequenceOf ==
  ASSUME NEW c \in Seq(Int), NEW f \in [DOMAIN c -> Int]
  PROVE  f \in Seq(Int) /\ Len(f) = Len(c)
<1>1. DOMAIN c = 1..Len(c) /\ Len(c) \in Nat
  OBVIOUS
<1>2. f \in [1..Len(c) -> Int]
  BY <1>1
<1>3. f \in Seq(Int) /\ DOMAIN f = 1..Len(c)
  BY <1>1, <1>2, IsASeq
<1>4. Len(f) = Len(c)
  BY <1>1, <1>3
<1> QED BY <1>3, <1>4

\* The types of casting
CastingInv == casting \in Seq(Int) /\ Len(casting) <= ScriptDepth

\* The tree is whole, and the working directory is a directory in it.
TreeInv ==
  (\E d : Good(tree, d)) /\ cwd \in Nodes /\ IsDir(cwd) /\ IsDir(Root)

\* Scripts keep their places when texts are freed.
LEMMA FreedKeeps ==
  ASSUME CastingInv, NEW ns, FreeTexts(ns)
  PROVE  CastingInv'
<1>1. casting' \in [DOMAIN casting -> Int]
  BY DEF FreeTexts, CastingInv, Freed
<1> QED BY <1>1, SequenceOf DEF CastingInv

\* vfs_carve_bytes changes a text and no node's place.
LEMMA CarvedKeeps ==
  ASSUME IInv, NEW n \in Nodes, ~IsDir(n), NEW text \in {"carved", "edited"},
         Carved(n, text), UNCHANGED cwd
  PROVE  TreeInv' /\ CastingInv'
<1>1. PICK d : Good(tree, d)
  BY DEF IInv
<1>2. tree \in [Nodes -> NodeRecord] /\ tree[n] \in NodeRecord /\ cwd \in Nodes
      /\ IsDir(cwd) /\ IsDir(Root) /\ Root \in Nodes
  BY <1>1 DEF Good, Typed, Nodes, IInv, RestInv
<1> DEFINE new == [tree[n] EXCEPT !.text = text]
<1>3. /\ new \in NodeRecord /\ new.name = tree[n].name /\ new.type = tree[n].type
      /\ new.children = tree[n].children /\ new.parent = tree[n].parent
      /\ new.learned = tree[n].learned
  <2> DEFINE r == tree[n]
  <2>1. r \in NodeRecord /\ text \in {"empty", "carved", "edited"}
    BY <1>2
  <2>2. new = [r EXCEPT !.text = text]
    OBVIOUS
  <2> HIDE DEF r, new
  <2>3. /\ new \in NodeRecord /\ new.name = r.name /\ new.type = r.type
        /\ new.children = r.children /\ new.parent = r.parent
        /\ new.learned = r.learned
    BY <2>1, <2>2 DEF NodeRecord
  <2> QED BY <2>3 DEF r
<1>4. new.learned => tree[n].type = "file"
  <2>1. GoodNode(tree[n])
    BY <1>1 DEF Good, Nodes
  <2> HIDE DEF new
  <2> QED BY <1>3, <2>1 DEF GoodNode
<1>5. tree' = [tree EXCEPT ![n] = new]
  BY DEF Carved
<1> HIDE DEF new
<1>6. Good(tree', d)
  BY <1>1, <1>3, <1>4, <1>5, ContentKeeps DEF Nodes
<1>7. TreeInv'
  <2>1. DOMAIN tree' = Nodes /\ \A m \in Nodes : tree'[m].type = tree[m].type
    BY <1>2, <1>3, <1>5
  <2> QED BY <1>2, <1>6, <2>1 DEF TreeInv, IsDir, Nodes
<1>8. CastingInv'
  <2>1. casting' \in [DOMAIN casting -> Int]
    BY DEF Carved, IInv, RestInv, Freed
  <2> QED BY <2>1, SequenceOf DEF CastingInv, IInv, RestInv
<1> QED BY <1>7, <1>8

\* A step that keeps a whole tree and the working directory
LEMMA KeptIs ==
  ASSUME Kept(tree'), UNCHANGED cwd
  PROVE  TreeInv'
  BY DEF Kept, TreeInv, IsDir, Nodes

\* What is opened as a file is one.
LEMMA FileAtIs ==
  ASSUME NEW d, Good(tree, d), cwd \in Nodes, NEW name, FileAt(name) # None
  PROVE  FileAt(name) \in Nodes \ {Root} /\ ~IsDir(FileAt(name))
  BY FindIs DEF FileAt

\* What vfs_warp does, with any answer
WarpKeeps(name, path) ==
  WarpPlain(name, path) \/ WarpOver(name, path) \/ WarpRename(name, path)

\* vfs_warp keeps the tree whole, with every answer.
LEMMA WarpKept ==
  ASSUME IInv, PlainNames, NEW name \in Names, NEW path \in Targets,
         WarpKeeps(name, path), kernel = "runs", UNCHANGED cwd
  PROVE  TreeInv' /\ CastingInv' /\ kernel' \in {"runs", "hung"}
<1> DEFINE src == Find(cwd, Cut(name))
           dest == Resolve(path)
<1>1. PICK d : Good(tree, d)
  BY DEF IInv
<1>2. CanWarp(name, path)
  BY DEF WarpKeeps, WarpPlain, WarpOver, WarpRename
<1>3. Movable(d, src, dest) /\ tree[src].name = name
  BY <1>1, <1>2, WarpMoves
<1>4. /\ Cut(name) = name /\ name \in Seq(Chars) /\ Len(name) \in 1..NameMax
      /\ name # BaseName
  BY NamesPlain
<1>5. CastingInv /\ TreeInv
  BY DEF CastingInv, TreeInv, IInv, RestInv
<1>6. dest \in Nodes
  BY <1>3 DEF Movable
<1> HIDE DEF dest
<1>7. /\ Find(dest, name) = None =>
           \A m \in Nodes : ~(tree[m].parent = dest /\ tree[m].name = name)
      /\ Find(dest, name) # None =>
           /\ Find(dest, name) \in Nodes \ {Root}
           /\ tree[Find(dest, name)].parent = dest
           /\ tree[Find(dest, name)].name = name
  BY <1>1, <1>6, FindIs
<1>8. Existing(name, path) = IF Find(dest, name) = src THEN None ELSE Find(dest, name)
  BY <1>4 DEF Existing, src, dest
<1> HIDE DEF src
<1>9. CASE WarpPlain(name, path)
  <2>1. tree' = Moved(tree, src, dest, name) /\ UNCHANGED <<casting, kernel>>
    BY <1>4, <1>9 DEF WarpPlain, src, dest, NoTextFreed
  <2>2. \A m \in Nodes \ {src} : ~(tree[m].parent = dest /\ tree[m].name = name)
    <3>1. Existing(name, path) = None
      BY <1>9 DEF WarpPlain
    <3>2. CASE Find(dest, name) = None
      BY <1>7, <3>2
    <3>3. CASE Find(dest, name) = src
      <4>1. src \in Nodes /\ tree[src].parent = dest
        BY <1>1, <1>3, <1>7, <3>3 DEF Movable, Good, Typed, Nodes, None
      <4> QED BY <1>1, <1>3, <4>1 DEF Good, Distinct, Nodes
    <3> QED BY <1>8, <3>1, <3>2, <3>3
  <2>3. Kept(tree')
    BY <1>1, <1>3, <1>4, <2>1, <2>2, MovedKept
  <2>4. CastingInv'
    BY <1>5, <2>1 DEF CastingInv
  <2> QED BY <2>1, <2>3, <2>4, KeptIs
<1>10. CASE WarpOver(name, path)
  <2> DEFINE e == Existing(name, path)
  <2>1. /\ e \in Nodes \ {Root} /\ e # src /\ tree[e].parent = dest /\ tree[e].name = name
        /\ Replaces(e)
    BY <1>7, <1>8, <1>10 DEF WarpOver
  <2>2. tree[e].children = <<>>
    BY <1>1, <2>1 DEF Replaces, Good, Typed, NodeRecord, GoodNode, IsDir, Nodes
  <2>3. IF src \in Subtree(e)
        THEN kernel' = "wild" /\ NoTextFreed /\ UNCHANGED tree
        ELSE /\ tree' = Moved(Freeing(Unlinked(tree, e), Subtree(e)), src, dest, name)
             /\ FreeTexts(Subtree(e)) /\ UNCHANGED kernel
    BY <1>4, <1>10 DEF WarpOver, src, dest
  <2> HIDE DEF e
  <2>4. /\ src \notin Subtree(e)
        /\ Kept(Moved(Freeing(Unlinked(tree, e), Subtree(e)), src, dest, name))
    BY <1>1, <1>3, <1>4, <2>1, <2>2, ReplacedKept
  <2>5. CastingInv'
    BY <1>5, <2>3, <2>4, FreedKeeps
  <2> QED BY <2>3, <2>4, <2>5, KeptIs
<1>11. CASE WarpRename(name, path)
  <2> DEFINE free == FreeNumbers(dest, name)
  <2>1. UNCHANGED casting
    BY <1>11 DEF WarpRename, NoTextFreed
  <2>2. CastingInv'
    BY <1>5, <2>1 DEF CastingInv
  <2>3. CASE free # {}
    <3> DEFINE i == Min(free)
    <3>1. i \in free
      <4>1. free \in SUBSET Nat
        BY DEF FreeNumbers
      <4> HIDE DEF free
      <4> QED BY <2>3, <4>1, MinIs
    <3>2. tree' = Moved(tree, src, dest, Renamed(name, i)) /\ UNCHANGED kernel
      BY <1>4, <1>11, <2>3 DEF WarpRename, src, dest
    <3> HIDE DEF i
    <3>3. i \in 1..MaxNodes /\ Find(dest, Renamed(name, i)) = None
      BY <3>1 DEF FreeNumbers
    <3> DEFINE new == Renamed(name, i)
    <3>4. new \in Seq(Chars) /\ Len(new) \in 1..NameMax /\ new # BaseName
      BY <1>4, <3>3, RenamedIs
    <3> HIDE DEF new
    <3>5. \A m \in Nodes : ~(tree[m].parent = dest /\ tree[m].name = new)
      BY <1>1, <1>6, <3>3, FindIs DEF new
    <3>6. Kept(tree')
      <4>1. tree' = Moved(tree, src, dest, new)
        BY <3>2 DEF new
      <4> QED BY <1>1, <1>3, <3>4, <3>5, <4>1, MovedKept
    <3> QED BY <2>2, <3>2, <3>6, KeptIs
  <2>4. CASE free = {}
    <3>1. kernel' = "hung" /\ UNCHANGED tree
      BY <1>4, <1>11, <2>4 DEF WarpRename, dest
    <3>2. TreeInv'
      BY <1>5, <3>1 DEF TreeInv, IsDir, Nodes
    <3> QED BY <2>2, <3>1, <3>2
  <2> QED BY <2>3, <2>4
<1> QED BY <1>9, <1>10, <1>11 DEF WarpKeeps

\* The warp that waits has a name and a path that were typed.
AskedInv == asked = NotAsked \/ (asked[1] \in Names /\ asked[2] \in Targets)

\* The parts of the invariant
LEMMA InvIs == IInv <=> /\ TreeInv /\ AskedInv /\ CastingInv
                        /\ kernel \in {"runs", "hung"} /\ restarts \in 0..MaxRestarts
  BY DEF IInv, RestInv, TreeInv, AskedInv, CastingInv

\* The invariant holds at the start.
LEMMA FirstInv ==
  ASSUME Init
  PROVE  IInv
<1>1. TreeInv
  BY FirstKept DEF Init, TreeInv, IsDir, Nodes, Root
<1>2. AskedInv /\ kernel \in {"runs", "hung"} /\ restarts \in 0..MaxRestarts
  BY BoundsAssumption DEF Init, AskedInv
<1>3. CastingInv
  <2>1. casting = <<>> /\ ScriptDepth \in Nat
    BY BoundsAssumption DEF Init
  <2> QED BY <2>1 DEF CastingInv
<1> QED BY <1>1, <1>2, <1>3, InvIs

\* The commands keep the invariant.
LEMMA CommandKeeps ==
  ASSUME IInv, PlainNames, NEW name \in Names, Command(name)
  PROVE  IInv'
<1>1. PICK d : Good(tree, d)
  BY DEF IInv
<1>2. /\ TreeInv /\ AskedInv /\ CastingInv
      /\ kernel \in {"runs", "hung"} /\ restarts \in 0..MaxRestarts
      /\ cwd \in Nodes /\ IsDir(cwd)
  BY InvIs DEF TreeInv
<1>3. UNCHANGED <<cwd, asked, kernel, restarts>>
  BY DEF Command, Mkdir, Fab, Carve, Learn, Burn, Cast
<1>4. AskedInv'
  BY <1>2, <1>3 DEF AskedInv
<1>5. SUFFICES TreeInv' /\ CastingInv'
  <2>1. /\ kernel' \in {"runs", "hung"} /\ restarts' \in 0..MaxRestarts
    BY <1>2, <1>3
  <2>2. ASSUME TreeInv', CastingInv' PROVE IInv'
    BY <1>4, <2>1, <2>2 DEF IInv, RestInv, TreeInv, AskedInv, CastingInv
  <2> QED BY <2>2
<1>6. CASE Mkdir(name) \/ Fab(name)
  <2>1. Kept(tree')
    <3>1. CASE Mkdir(name)
      <4>1. Added("dir", name)
        BY <3>1 DEF Mkdir
      <4> QED BY <4>1, AddedKept
    <3>2. CASE Fab(name)
      <4>1. Added("file", name)
        BY <3>2 DEF Fab
      <4> QED BY <4>1, AddedKept
    <3> QED BY <1>6, <3>1, <3>2
  <2>2. UNCHANGED casting
    BY <1>6 DEF Mkdir, Fab
  <2>3. CastingInv'
    BY <1>2, <2>2 DEF CastingInv
  <2> QED BY <1>3, <2>1, <2>3, KeptIs
<1>7. CASE Carve(name)
  <2>1. FileAt(name) # None /\ Carved(FileAt(name), "carved")
    BY <1>7 DEF Carve
  <2>2. FileAt(name) \in Nodes /\ ~IsDir(FileAt(name))
    BY <1>1, <1>2, <2>1, FileAtIs
  <2> QED BY <1>3, <2>1, <2>2, CarvedKeeps
<1>8. CASE Learn(name)
  <2> DEFINE n == FileAt(name)
  <2>1. /\ n # None /\ UNCHANGED casting
        /\ tree' = [tree EXCEPT ![n] = [tree[n] EXCEPT !.learned = TRUE]]
    BY <1>8 DEF Learn
  <2>2. n \in Nodes /\ ~IsDir(n)
    BY <1>1, <1>2, <2>1, FileAtIs
  <2> HIDE DEF n
  <2> DEFINE r == tree[n]
             new == [r EXCEPT !.learned = TRUE]
  <2>3. r \in NodeRecord /\ tree \in [Nodes -> NodeRecord] /\ r.type = "file"
    BY <1>1, <2>2 DEF Good, Typed, Nodes, IsDir, NodeRecord
  <2>4. tree' = [tree EXCEPT ![n] = new]
    BY <2>1
  <2> HIDE DEF r
  <2>5. /\ new \in NodeRecord /\ new.name = r.name /\ new.type = r.type
        /\ new.children = r.children /\ new.parent = r.parent
    BY <2>3 DEF NodeRecord
  <2> HIDE DEF new
  <2>6. Good(tree', d)
    BY <1>1, <2>2, <2>3, <2>4, <2>5, ContentKeeps DEF Nodes, r
  <2>7. DOMAIN tree' = Nodes /\ \A m \in Nodes : tree'[m].type = tree[m].type
    BY <2>2, <2>3, <2>4, <2>5 DEF r
  <2>8. TreeInv'
    <3>1. Root \in Nodes
      BY <1>1 DEF Good, Typed, Nodes
    <3> QED BY <1>2, <1>3, <2>6, <2>7, <3>1 DEF TreeInv, IsDir, Nodes
  <2>9. CastingInv'
    BY <1>2, <2>1 DEF CastingInv
  <2> QED BY <2>8, <2>9
<1>9. CASE Burn(name)
  <2> DEFINE n == Find(cwd, name)
  <2>1. /\ n # None /\ (IsDir(n) => tree[n].children = <<>>)
        /\ tree' = Freeing(Unlinked(tree, n), Subtree(n)) /\ FreeTexts(Subtree(n))
    BY <1>9 DEF Burn
  <2>2. n \in Nodes \ {Root} /\ tree[n].parent = cwd
    BY <1>1, <1>2, <2>1, FindIs
  <2> HIDE DEF n
  <2>3. tree[n].children = <<>>
    BY <1>1, <2>1, <2>2 DEF Good, Typed, NodeRecord, GoodNode, IsDir, Nodes
  <2>4. n # cwd
    <3>1. \A c \in Nodes \ {Root} : tree[c].parent # n
      BY <1>1, <2>2, <2>3, NoChild
    <3> QED BY <2>2, <3>1
  <2>5. Kept(tree')
    BY <1>1, <2>1, <2>2, <2>3, <2>4, BurntKept
  <2> QED BY <1>2, <1>3, <2>1, <2>5, KeptIs, FreedKeeps
<1>10. CASE Cast(name)
  <2>1. /\ FileAt(name) # None /\ Len(casting) < ScriptDepth /\ UNCHANGED tree
        /\ casting' = Append(casting, FileAt(name))
    BY <1>10 DEF Cast
  <2>2. FileAt(name) \in Int
    <3>1. FileAt(name) \in Nodes
      BY <1>1, <1>2, <2>1, FileAtIs
    <3> QED BY <1>1, <3>1 DEF Good, Typed, Nodes
  <2> DEFINE n == FileAt(name)
  <2> HIDE DEF n
  <2>3. n \in Int /\ casting' = Append(casting, n)
    BY <2>1, <2>2 DEF n
  <2>4. CastingInv'
    <3>1. casting' \in Seq(Int) /\ Len(casting') = Len(casting) + 1 /\ Len(casting) \in Nat
      BY <1>2, <2>3 DEF CastingInv
    <3>2. Len(casting') <= ScriptDepth
      BY <2>1, <3>1, BoundsAssumption
    <3> QED BY <3>1, <3>2 DEF CastingInv
  <2>5. TreeInv'
    BY <1>2, <1>3, <2>1 DEF TreeInv, IsDir, Nodes
  <2> QED BY <2>4, <2>5
<1> QED BY <1>6, <1>7, <1>8, <1>9, <1>10 DEF Command

\* A warp and the answer to its question keep the invariant.
LEMMA WarpedKeeps ==
  ASSUME IInv, PlainNames,
         (\E name \in Names, path \in Targets : Warp(name, path)) \/ WarpAnswered
  PROVE  IInv'
<1>1. /\ TreeInv /\ AskedInv /\ CastingInv
      /\ kernel \in {"runs", "hung"} /\ restarts \in 0..MaxRestarts
  BY InvIs
<1>2. UNCHANGED <<cwd, restarts>> /\ kernel = "runs"
  BY DEF Warp, WarpAnswered, Shell
<1>3. AskedInv'
  <2>1. CASE \E name \in Names, path \in Targets : Warp(name, path)
    <3>1. PICK name \in Names, path \in Targets : Warp(name, path)
      BY <2>1
    <3>2. UNCHANGED asked \/ asked' = <<name, path>>
      BY <3>1 DEF Warp
    <3> QED BY <1>1, <3>2 DEF AskedInv
  <2>2. CASE WarpAnswered
    BY <2>2 DEF WarpAnswered, AskedInv
  <2> QED BY <2>1, <2>2
<1>4. ASSUME UNCHANGED <<tree, casting, kernel>>
      PROVE  TreeInv' /\ CastingInv' /\ kernel' \in {"runs", "hung"}
  <2>1. TreeInv'
    BY <1>1, <1>2, <1>4 DEF TreeInv, IsDir, Nodes
  <2>2. CastingInv'
    BY <1>1, <1>4 DEF CastingInv
  <2> QED BY <1>1, <1>4, <2>1, <2>2
<1>5. TreeInv' /\ CastingInv' /\ kernel' \in {"runs", "hung"}
  <2>1. CASE \E name \in Names, path \in Targets : Warp(name, path)
    <3>1. PICK name \in Names, path \in Targets : Warp(name, path)
      BY <2>1
    <3>2. WarpPlain(name, path) \/ UNCHANGED <<tree, casting, kernel>>
      BY <3>1 DEF Warp, NoTextFreed
    <3>3. CASE WarpPlain(name, path)
      BY <1>2, <3>3, WarpKept DEF WarpKeeps
    <3> QED BY <1>4, <3>2, <3>3
  <2>2. CASE WarpAnswered
    <3> DEFINE name == asked[1]
               path == asked[2]
    <3>1. name \in Names /\ path \in Targets
      BY <1>1, <2>2 DEF WarpAnswered, AskedInv
    <3>2. WarpKeeps(name, path) \/ UNCHANGED <<tree, casting, kernel>>
      BY <2>2 DEF WarpAnswered, WarpKeeps, NoTextFreed
    <3> HIDE DEF name, path
    <3>3. CASE WarpKeeps(name, path)
      BY <1>2, <3>1, <3>3, WarpKept
    <3> QED BY <1>4, <3>2, <3>3
  <2> QED BY <2>1, <2>2
<1>6. restarts' \in 0..MaxRestarts
  BY <1>1, <1>2
<1> QED BY <1>3, <1>5, <1>6 DEF IInv, RestInv, TreeInv, AskedInv, CastingInv

\* Every step keeps the invariant.
LEMMA StepKeeps ==
  ASSUME IInv, PlainNames, [Next]_vars
  PROVE  IInv'
<1>1. PICK d : Good(tree, d)
  BY DEF IInv
<1>2. /\ TreeInv /\ AskedInv /\ CastingInv
      /\ kernel \in {"runs", "hung"} /\ restarts \in 0..MaxRestarts
      /\ cwd \in Nodes /\ IsDir(cwd) /\ IsDir(Root) /\ Root \in Nodes
  BY <1>1, InvIs DEF TreeInv, Good, Typed, Nodes
<1>3. ASSUME UNCHANGED <<tree, cwd>> PROVE TreeInv'
  BY <1>2, <1>3 DEF TreeInv, IsDir, Nodes
<1>4. ASSUME UNCHANGED casting PROVE CastingInv'
  BY <1>2, <1>4 DEF CastingInv
<1>5. ASSUME TreeInv', CastingInv', UNCHANGED <<asked, kernel, restarts>> PROVE IInv'
  <2>1. AskedInv' /\ kernel' \in {"runs", "hung"} /\ restarts' \in 0..MaxRestarts
    BY <1>2, <1>5 DEF AskedInv
  <2> QED BY <1>5, <2>1 DEF IInv, RestInv, TreeInv, AskedInv, CastingInv
<1>6. CASE UNCHANGED vars
  BY <1>3, <1>4, <1>5, <1>6 DEF vars
<1>7. ASSUME NEW name \in Names, Command(name) PROVE IInv'
  BY <1>7, CommandKeeps
<1>8. ASSUME NEW name \in Names, EditorOpens(name) PROVE IInv'
  <2>1. UNCHANGED <<cwd, asked, casting, kernel, restarts>>
    BY <1>8 DEF EditorOpens
  <2>2. UNCHANGED tree \/ Added("file", name)
    BY <1>8 DEF EditorOpens
  <2>3. TreeInv'
    <3>1. CASE UNCHANGED tree
      BY <1>3, <2>1, <3>1
    <3>2. CASE Added("file", name)
      <4>1. Kept(tree')
        BY <3>2, AddedKept
      <4> QED BY <2>1, <4>1, KeptIs
    <3> QED BY <2>2, <3>1, <3>2
  <2>4. CastingInv'
    BY <1>4, <2>1
  <2> QED BY <1>5, <2>1, <2>3, <2>4
<1>9. ASSUME NEW path \in Targets, Cd(path) PROVE IInv'
  <2>1. /\ Resolve(path) # None /\ cwd' = Resolve(path)
        /\ UNCHANGED <<tree, asked, casting, kernel, restarts>>
    BY <1>9 DEF Cd
  <2>2. IsPlace(cwd) /\ IsPlace(Root)
    BY <1>2 DEF IsPlace
  <2>3. IsPlace(Resolve(path))
    BY <1>1, <2>2, ResolveIs
  <2>4. TreeInv'
    BY <1>2, <2>1, <2>3 DEF TreeInv, IsPlace, IsDir, Nodes
  <2>5. CastingInv'
    BY <1>4, <2>1
  <2> QED BY <1>5, <2>1, <2>4, <2>5
<1>10. CASE (\E name \in Names, path \in Targets : Warp(name, path)) \/ WarpAnswered
  BY <1>10, WarpedKeeps
<1>11. CASE CastEnds
  <2>1. casting # <<>> /\ casting' = Front(casting)
        /\ UNCHANGED <<tree, cwd, asked, kernel, restarts>>
    BY <1>11 DEF CastEnds
  <2>2. /\ casting \in Seq(Int) /\ Len(casting) <= ScriptDepth /\ ScriptDepth \in Nat
    BY <1>2, BoundsAssumption DEF CastingInv
  <2>3. CastingInv'
    <3> DEFINE k == Len(casting) - 1
    <3>1. casting' = SubSeq(casting, 1, k) /\ k \in Nat /\ k <= Len(casting)
      BY <2>1, <2>2 DEF Front
    <3>2. \A i \in 1..k : casting[i] \in Int
      BY <2>2, <3>1
    <3>3. k <= ScriptDepth
      BY <2>2
    <3> HIDE DEF k
    <3>4. SubSeq(casting, 1, k) \in Seq(Int) /\ Len(SubSeq(casting, 1, k)) = k
      BY <2>2, <3>1, <3>2
    <3> QED BY <3>1, <3>3, <3>4 DEF CastingInv
  <2> QED BY <1>3, <1>5, <2>1, <2>3
<1>12. CASE EditorSaves
  <2> DEFINE n == FileAt(editor.name)
  <2>1. /\ n # None /\ Carved(n, "edited")
        /\ UNCHANGED <<cwd, asked, kernel, restarts>>
    BY <1>12 DEF EditorSaves
  <2>2. n \in Nodes /\ ~IsDir(n)
    BY <1>1, <1>2, <2>1, FileAtIs
  <2> HIDE DEF n
  <2>3. TreeInv' /\ CastingInv'
    BY <2>1, <2>2, CarvedKeeps
  <2> QED BY <1>5, <2>1, <2>3
<1>13. CASE EditorCloses
  BY <1>3, <1>4, <1>5, <1>13 DEF EditorCloses
<1>14. CASE Format
  <2>1. /\ tree' = FirstTree /\ cwd' = 2 /\ UNCHANGED <<asked, kernel, restarts>>
        /\ casting' = [i \in DOMAIN casting |-> IF casting[i] \in Nodes THEN None
                                                                    ELSE casting[i]]
    BY <1>14 DEF Format
  <2>2. TreeInv'
    BY <2>1, FirstKept DEF TreeInv, IsDir, Nodes
  <2>3. CastingInv'
    <3>1. casting' \in [DOMAIN casting -> Int]
      BY <1>2, <2>1 DEF CastingInv, None
    <3> QED BY <1>2, <3>1, SequenceOf DEF CastingInv
  <2> QED BY <1>5, <2>1, <2>2, <2>3
<1>15. CASE Restart
  <2> DEFINE dir  == Find(Root, RootDirName)
             base == IF dir = None THEN None ELSE Find(dir, BaseName)
  <2>1. /\ restarts' = restarts + 1 /\ restarts < MaxRestarts
        /\ cwd' = (IF base = None THEN Root ELSE base) /\ casting' = <<>>
        /\ UNCHANGED <<tree, asked, kernel>>
    BY <1>15 DEF Restart
  <2>2. dir # None => dir \in Nodes
    BY <1>1, <1>2, FindIs
  <2>3. base # None => base \in Nodes /\ tree[base].name = BaseName
    <3> HIDE DEF dir
    <3>1. dir # None /\ Find(dir, BaseName) # None =>
            Find(dir, BaseName) \in Nodes /\ tree[Find(dir, BaseName)].name = BaseName
      BY <1>1, <2>2, FindIs
    <3> QED BY <3>1
  <2> HIDE DEF base
  <2>4. base # None => IsDir(base)
    BY <1>1, <2>3 DEF Good, Typed, NodeRecord, GoodNode, IsDir, Nodes
  <2>5. TreeInv'
    BY <1>2, <2>1, <2>3, <2>4 DEF TreeInv, IsDir, Nodes
  <2>6. CastingInv'
    <3>1. casting' = <<>> /\ ScriptDepth \in Nat
      BY <2>1, BoundsAssumption
    <3> QED BY <3>1 DEF CastingInv
  <2>7. restarts' \in 0..MaxRestarts
    BY <1>2, <2>1, BoundsAssumption
  <2>8. AskedInv' /\ kernel' \in {"runs", "hung"}
    BY <1>2, <2>1 DEF AskedInv
  <2> QED BY <2>5, <2>6, <2>7, <2>8 DEF IInv, RestInv, TreeInv, AskedInv, CastingInv
<1> QED BY <1>6, <1>7, <1>8, <1>9, <1>10, <1>11, <1>12, <1>13, <1>14, <1>15 DEF Next

\* The invariant gives the property.
LEMMA InvSays ==
  ASSUME IInv
  PROVE  WholeTree
<1>1. PICK d : Good(tree, d)
  BY DEF IInv
<1>2. /\ CastingInv /\ kernel \in {"runs", "hung"} /\ restarts \in 0..MaxRestarts
      /\ cwd \in Nodes
  BY InvIs DEF TreeInv
<1>3. TypeOK
  <2>1. /\ Nodes \subseteq 0..MaxNodes /\ Root \in Nodes
        /\ \A n \in Nodes : tree[n] \in NodeRecord /\ GoodNode(tree[n])
    BY <1>1 DEF Good, Typed, Nodes
  <2>2. ASSUME NEW n \in Nodes
        PROVE  /\ tree[n].type \in {"dir", "file"} /\ Len(tree[n].name) \in 1..NameMax
               /\ tree[n].text \in {"empty", "carved", "edited"}
               /\ tree[n].learned => tree[n].type = "file"
    BY <2>1 DEF NodeRecord, GoodNode
  <2> QED BY <1>2, <2>1, <2>2 DEF TypeOK, CastingInv
<1>4. OneTree
  <2>1. ASSUME NEW n \in Nodes PROVE Root \in Above(n)
    <3>1. Rooted(d)
      BY <1>1, GoodRooted
    <3> QED BY <3>1, AboveNode
  <2>2. ASSUME NEW n \in Nodes
        PROVE  /\ DOMAIN tree[n].children = 1..Len(tree[n].children)
               /\ IsInjective(tree[n].children)
               /\ n # Root => /\ tree[n].parent \in Nodes
                              /\ Contains(tree[tree[n].parent].children, n)
    BY <1>1 DEF Good, Typed, NodeRecord, ListedOnce, ParentKnows, Nodes
  <2>3. ASSUME NEW n \in Nodes, NEW i \in DOMAIN tree[n].children
        PROVE  tree[n].children[i] \in Nodes /\ tree[tree[n].children[i]].parent = n
    BY <1>1, <2>2 DEF Good, ChildrenKnow, Nodes
  <2>4. tree[Root].parent = None
    BY <1>1 DEF Good, ParentKnows
  <2> QED BY <2>1, <2>2, <2>3, <2>4 DEF OneTree
<1>5. NamesUnique
  BY <1>1 DEF NamesUnique, Good, Distinct, Nodes
<1>6. CwdInTree
  BY <1>2 DEF CwdInTree
<1> QED BY <1>3, <1>4, <1>5, <1>6 DEF WholeTree

\* WholeTree holds of every behaviour: no sequence of commands, of answers to a name
\* conflict, of scripts and editors, and of restarts makes a cycle, loses a node or lists
\* it twice, leaves two nodes of one name in a directory, or deletes the working directory
\* (vfs_warp, vfs_burn, link_child, remove_child), if the names typed are plain.
THEOREM TreeStaysWhole == ASSUME PlainNames PROVE Spec => []WholeTree
<1>1. Init => IInv
  BY FirstInv
<1>2. IInv /\ [Next]_vars => IInv'
  BY StepKeeps
<1>3. IInv => WholeTree
  BY InvSays
<1> QED BY <1>1, <1>2, <1>3, PTL DEF Spec

-----------------------------------------------------------------------------
\* The paths of a tree.

\* f gives each node of t its path.
Spelled(t, f) ==
  f = [n \in DOMAIN t |-> IF n = Root THEN <<>> ELSE Append(f[t[n].parent], t[n].name)]

PathsOf(t) == CHOOSE f : Spelled(t, f)

Steps == Seq(Seq(Chars))

\* The parent of a node is a directory one step above it.
LEMMA ParentIs ==
  ASSUME NEW t, NEW d, Good(t, d), NEW n \in DOMAIN t \ {Root}
  PROVE  /\ t[n].parent \in DOMAIN t /\ t[t[n].parent].type = "dir"
         /\ d[n] \in Nat /\ d[t[n].parent] \in Nat /\ d[n] = d[t[n].parent] + 1
         /\ t[n].name \in Seq(Chars)
<1>1. t[n].parent \in DOMAIN t /\ Contains(t[t[n].parent].children, n)
  BY DEF Good, ParentKnows
<1>2. t[t[n].parent].children # <<>>
  <2>1. \E i \in 1..Len(t[t[n].parent].children) : TRUE
    BY <1>1 DEF Contains
  <2> QED BY <2>1
<1>3. t[t[n].parent] \in NodeRecord /\ t[n] \in NodeRecord
  BY <1>1 DEF Good, Typed
<1>4. t[t[n].parent].type = "dir"
  BY <1>1, <1>2, <1>3 DEF Good, GoodNode, NodeRecord
<1> QED BY <1>1, <1>3, <1>4, NodeFields DEF Good, IsDepth

\* From the root to its children, and so to all nodes
LEMMA DownTheTree ==
  ASSUME NEW t, NEW d, Good(t, d), NEW P \in SUBSET DOMAIN t, Root \in P,
         \A n \in DOMAIN t \ {Root} : t[n].parent \in P => n \in P
  PROVE  P = DOMAIN t
<1> DEFINE Some == {k \in Nat : \A n \in DOMAIN t : d[n] = k => n \in P}
<1>1. 0 \in Some
  <2> SUFFICES ASSUME NEW n \in DOMAIN t, d[n] = 0, n # Root PROVE FALSE
    OBVIOUS
  <2>1. d[n] = d[t[n].parent] + 1 /\ d[t[n].parent] \in Nat
    BY ParentIs
  <2> QED BY <2>1
<1>2. ASSUME NEW k \in Some PROVE k + 1 \in Some
  <2> SUFFICES ASSUME NEW n \in DOMAIN t, d[n] = k + 1, n # Root PROVE n \in P
    OBVIOUS
  <2>1. t[n].parent \in DOMAIN t /\ d[n] = d[t[n].parent] + 1 /\ d[t[n].parent] \in Nat
    BY ParentIs
  <2>2. d[t[n].parent] = k
    BY <2>1
  <2> QED BY <2>1, <2>2
<1>3. Some = Nat
  <2> HIDE DEF Some
  <2>1. Some \in SUBSET Nat
    BY DEF Some
  <2> QED BY <1>1, <1>2, <2>1, Induction
<1>4. \A n \in DOMAIN t : d[n] \in Nat
  BY DEF Good, IsDepth
<1> QED BY <1>3, <1>4

\* There is a deepest node.
LEMMA DepthsEnd ==
  ASSUME NEW t, NEW d, Good(t, d)
  PROVE  \E b \in Nat : \A n \in DOMAIN t : d[n] <= b
<1> DEFINE Some == {k \in Nat : \E b \in Nat : \A n \in DOMAIN t : n <= k => d[n] <= b}
<1>0. DOMAIN t \subseteq 0..MaxNodes /\ MaxNodes \in Nat /\ \A n \in DOMAIN t : d[n] \in Nat
  BY BoundsAssumption DEF Good, Typed, IsDepth
<1>1. 0 \in Some
  <2>1. CASE 0 \in DOMAIN t
    <3>1. \A n \in DOMAIN t : n <= 0 => n = 0
      BY <1>0
    <3> QED BY <1>0, <2>1, <3>1
  <2>2. CASE 0 \notin DOMAIN t
    <3>1. \A n \in DOMAIN t : ~(n <= 0)
      BY <1>0, <2>2
    <3> QED BY <3>1
  <2> QED BY <2>1, <2>2
<1>2. ASSUME NEW k \in Some PROVE k + 1 \in Some
  <2>1. PICK b \in Nat : \A n \in DOMAIN t : n <= k => d[n] <= b
    OBVIOUS
  <2>2. \A n \in DOMAIN t : n <= k + 1 => n <= k \/ n = k + 1
    BY <1>0
  <2>3. CASE k + 1 \in DOMAIN t
    <3>1. PICK c \in Nat : b <= c /\ d[k + 1] <= c
      BY <1>0, <2>3
    <3>2. ASSUME NEW n \in DOMAIN t, n <= k + 1 PROVE d[n] <= c
      BY <1>0, <2>1, <2>2, <3>1, <3>2
    <3> QED BY <3>2
  <2>4. CASE k + 1 \notin DOMAIN t
    BY <2>1, <2>2, <2>4
  <2> QED BY <2>3, <2>4
<1>3. Some = Nat
  <2> HIDE DEF Some
  <2>1. Some \in SUBSET Nat
    BY DEF Some
  <2> QED BY <1>1, <1>2, <2>1, Induction
<1>4. PICK b \in Nat : \A n \in DOMAIN t : n <= MaxNodes => d[n] <= b
  BY <1>0, <1>3
<1> QED BY <1>0, <1>4

\* f gives its path to each node that is no deeper than k.
SpelledTo(t, d, k, f) ==
  f = [n \in DOMAIN t |-> IF n = Root \/ d[n] > k THEN <<>>
                          ELSE Append(f[t[n].parent], t[n].name)]

\* Every whole tree has its paths: by induction on the depth.
LEMMA PathsExist ==
  ASSUME NEW t, NEW d, Good(t, d)
  PROVE  Spelled(t, PathsOf(t))
<1> DEFINE Some == {k \in Nat : \E f : SpelledTo(t, d, k, f)}
<1>0. \A n \in DOMAIN t \ {Root} :
        /\ t[n].parent \in DOMAIN t /\ d[t[n].parent] \in Nat /\ d[n] \in Nat
        /\ d[n] = d[t[n].parent] + 1
  BY ParentIs
<1>1. 0 \in Some
  <2> DEFINE f == [n \in DOMAIN t |-> <<>>]
  <2>1. SpelledTo(t, d, 0, f)
    <3>1. \A n \in DOMAIN t \ {Root} : d[n] > 0
      BY <1>0
    <3> QED BY <3>1 DEF SpelledTo
  <2> QED BY <2>1
<1>2. ASSUME NEW k \in Some PROVE k + 1 \in Some
  <2>1. PICK f : SpelledTo(t, d, k, f)
    OBVIOUS
  <2> DEFINE g == [n \in DOMAIN t |-> IF n = Root \/ d[n] > k + 1 THEN <<>>
                                      ELSE Append(f[t[n].parent], t[n].name)]
  <2>2. ASSUME NEW n \in DOMAIN t \ {Root}, ~(d[n] > k + 1)
        PROVE  g[t[n].parent] = f[t[n].parent]
    <3> DEFINE m == t[n].parent
    <3>1. m \in DOMAIN t /\ ~(d[m] > k) /\ ~(d[m] > k + 1)
      BY <1>0, <2>2
    <3> HIDE DEF m
    <3>2. f[m] = IF m = Root THEN <<>> ELSE Append(f[t[m].parent], t[m].name)
      BY <2>1, <3>1 DEF SpelledTo
    <3>3. g[m] = IF m = Root THEN <<>> ELSE Append(f[t[m].parent], t[m].name)
      BY <3>1
    <3>4. g[m] = f[m]
      BY <3>2, <3>3
    <3> QED BY <3>4 DEF m
  <2>3. ASSUME NEW n \in DOMAIN t
        PROVE  g[n] = IF n = Root \/ d[n] > k + 1 THEN <<>>
                      ELSE Append(g[t[n].parent], t[n].name)
    <3>1. CASE n = Root \/ d[n] > k + 1
      BY <3>1
    <3>2. CASE ~(n = Root \/ d[n] > k + 1)
      <4>1. g[n] = Append(f[t[n].parent], t[n].name)
        BY <3>2
      <4> HIDE DEF g
      <4> QED BY <2>2, <3>2, <4>1
    <3> QED BY <3>1, <3>2
  <2>4. SpelledTo(t, d, k + 1, g)
    <3>1. g = [n \in DOMAIN t |-> g[n]]
      OBVIOUS
    <3> HIDE DEF g
    <3> QED BY <2>3, <3>1 DEF SpelledTo
  <2> QED BY <2>4
<1>3. Some = Nat
  <2> HIDE DEF Some
  <2>1. Some \in SUBSET Nat
    BY DEF Some
  <2> QED BY <1>1, <1>2, <2>1, Induction
<1>4. PICK b \in Nat : \A n \in DOMAIN t : d[n] <= b
  BY DepthsEnd
<1>5. PICK f : SpelledTo(t, d, b, f)
  BY <1>3
<1>6. \A n \in DOMAIN t : ~(d[n] > b)
  BY <1>4 DEF Good, IsDepth
<1>7. Spelled(t, f)
  BY <1>5, <1>6 DEF Spelled, SpelledTo
<1> QED BY <1>7 DEF PathsOf

\* The path of a node is the one of its parent and its name.
LEMMA PathIs ==
  ASSUME NEW t, NEW d, Good(t, d), NEW f, Spelled(t, f)
  PROVE  /\ DOMAIN f = DOMAIN t /\ f[Root] = <<>>
         /\ \A n \in DOMAIN t \ {Root} : f[n] = Append(f[t[n].parent], t[n].name)
  BY DEF Spelled, Good, Typed

\* The functions PathIs tells of are no others than Spelled ones.
LEMMA SpelledIs ==
  ASSUME NEW t, NEW f, Root \in DOMAIN t,
         f = [n \in DOMAIN t |-> f[n]], f[Root] = <<>>,
         \A n \in DOMAIN t \ {Root} : f[n] = Append(f[t[n].parent], t[n].name)
  PROVE  Spelled(t, f)
  BY DEF Spelled

\* A tree has one way to spell its paths.
LEMMA PathsFixed ==
  ASSUME NEW t, NEW d, Good(t, d), NEW f, Spelled(t, f)
  PROVE  f = PathsOf(t)
<1> DEFINE g == PathsOf(t)
           P == {n \in DOMAIN t : f[n] = g[n]}
<1>1. Spelled(t, g)
  BY PathsExist
<1>2. Root \in DOMAIN t
  BY DEF Good, Typed
<1> HIDE DEF g
<1>3. /\ f = [n \in DOMAIN t |-> f[n]] /\ g = [n \in DOMAIN t |-> g[n]]
  BY <1>1 DEF Spelled
<1>4. Root \in P
  BY <1>1, <1>2, PathIs
<1>5. ASSUME NEW n \in DOMAIN t \ {Root}, t[n].parent \in P PROVE n \in P
  <2>1. f[t[n].parent] = g[t[n].parent]
    BY <1>5
  <2>2. f[n] = Append(f[t[n].parent], t[n].name)
    BY PathIs
  <2>3. g[n] = Append(g[t[n].parent], t[n].name)
    BY <1>1, PathIs
  <2> QED BY <2>1, <2>2, <2>3
<1>6. P = DOMAIN t
  <2> HIDE DEF P
  <2>1. P \in SUBSET DOMAIN t
    BY DEF P
  <2> QED BY <1>4, <1>5, <2>1, DownTheTree
<1> QED BY <1>3, <1>6 DEF g

\* A path has as many parts as the node is deep.
LEMMA PathsTyped ==
  ASSUME NEW t, NEW d, Good(t, d), NEW f, Spelled(t, f)
  PROVE  \A n \in DOMAIN t : f[n] \in Steps /\ Len(f[n]) = d[n]
<1> DEFINE P == {n \in DOMAIN t : f[n] \in Steps /\ Len(f[n]) = d[n]}
<1>1. Root \in P
  <2>1. Root \in DOMAIN t /\ d[Root] = 0 /\ f[Root] = <<>>
    BY PathIs DEF Good, Typed, IsDepth
  <2>2. <<>> \in Steps /\ Len(<<>>) = 0
    BY DEF Steps
  <2> QED BY <2>1, <2>2
<1>2. ASSUME NEW n \in DOMAIN t \ {Root}, t[n].parent \in P PROVE n \in P
  <2> DEFINE p == f[t[n].parent]
             S == Seq(Chars)
             x == t[n].name
  <2>1. d[n] = d[t[n].parent] + 1 /\ d[t[n].parent] \in Nat /\ x \in S
    BY ParentIs
  <2>2. f[n] = Append(p, x) /\ p \in Seq(S) /\ Len(p) = d[t[n].parent]
    BY <1>2, PathIs DEF Steps
  <2> HIDE DEF p, x, S
  <2>3. Append(p, x) \in Seq(S) /\ Len(Append(p, x)) = Len(p) + 1
    BY <2>1, <2>2, AppendProperties
  <2>4. f[n] \in Steps
    BY <2>2, <2>3 DEF Steps, S
  <2>5. Len(f[n]) = d[n]
    BY <2>1, <2>2, <2>3
  <2> QED BY <2>4, <2>5
<1>3. P = DOMAIN t
  <2> HIDE DEF P
  <2>1. P \in SUBSET DOMAIN t
    BY DEF P
  <2> QED BY <1>1, <1>2, <2>1, DownTheTree
<1> QED BY <1>3

\* Sequences that are equal after an element more
LEMMA AppendsEqual ==
  ASSUME NEW S, NEW s \in Seq(S), NEW r \in Seq(S), NEW x \in S, NEW y \in S,
         Append(s, x) = Append(r, y)
  PROVE  s = r /\ x = y
<1>1. Len(Append(s, x)) = Len(s) + 1 /\ Len(Append(r, y)) = Len(r) + 1
      /\ Len(s) \in Nat /\ Len(r) \in Nat
  OBVIOUS
<1>2. Len(s) = Len(r)
  BY <1>1
<1>3. x = y
  <2>1. Append(s, x)[Len(s) + 1] = x /\ Append(r, y)[Len(r) + 1] = y
    OBVIOUS
  <2> QED BY <1>2, <2>1
<1>4. \A i \in 1..Len(s) : s[i] = r[i]
  <2>1. \A i \in 1..Len(s) : Append(s, x)[i] = s[i]
    OBVIOUS
  <2>2. \A i \in 1..Len(r) : Append(r, y)[i] = r[i]
    OBVIOUS
  <2> QED BY <1>2, <2>1, <2>2
<1>5. s = r
  BY <1>2, <1>4, SeqEqual
<1> QED BY <1>3, <1>5

\* Nodes of one path are one node: names are unique in each directory.
LEMMA PathsApart ==
  ASSUME NEW t, NEW d, Good(t, d), NEW f, Spelled(t, f)
  PROVE  \A n, m \in DOMAIN t : f[n] = f[m] => n = m
<1> DEFINE P == {n \in DOMAIN t : \A m \in DOMAIN t : f[n] = f[m] => n = m}
<1>0. ASSUME NEW n \in DOMAIN t, d[n] = 0 PROVE n = Root
  <2>1. n # Root => d[n] = d[t[n].parent] + 1 /\ d[t[n].parent] \in Nat
    BY ParentIs
  <2> QED BY <1>0, <2>1
<1>1. Root \in P
  <2>1. Root \in DOMAIN t /\ d[Root] = 0
    BY DEF Good, Typed, IsDepth
  <2>2. ASSUME NEW m \in DOMAIN t, f[Root] = f[m] PROVE m = Root
    <3>1. d[m] = d[Root]
      BY <2>1, <2>2, PathsTyped
    <3> QED BY <1>0, <2>1, <3>1
  <2> QED BY <2>1, <2>2
<1>2. ASSUME NEW n \in DOMAIN t \ {Root}, t[n].parent \in P PROVE n \in P
  <2> SUFFICES ASSUME NEW m \in DOMAIN t, f[n] = f[m] PROVE n = m
    OBVIOUS
  <2>1. d[n] = d[m]
    BY PathsTyped
  <2>2. d[n] = d[t[n].parent] + 1 /\ d[t[n].parent] \in Nat
    BY ParentIs
  <2>3. m # Root
    <3>1. d[Root] = 0
      BY DEF Good, IsDepth
    <3>2. d[n] # 0
      BY <2>2
    <3> QED BY <2>1, <3>1, <3>2
  <2> DEFINE S == Seq(Chars)
             p == t[n].parent
             q == t[m].parent
             x == t[n].name
             y == t[m].name
             s == f[p]
             r == f[q]
  <2>4. p \in DOMAIN t /\ q \in DOMAIN t /\ x \in S /\ y \in S
    BY <2>3, ParentIs
  <2>5. s \in Seq(S) /\ r \in Seq(S)
    BY <2>4, PathsTyped DEF Steps
  <2>6. Append(s, x) = Append(r, y)
    BY <2>3, PathIs
  <2>7. s = r /\ x = y
    <3> HIDE DEF S, s, r, x, y
    <3> QED BY <2>4, <2>5, <2>6, AppendsEqual
  <2>8. p = q
    BY <1>2, <2>4, <2>7
  <2> QED BY <2>7, <2>8 DEF Good, Distinct
<1>3. P = DOMAIN t
  <2> HIDE DEF P
  <2>1. P \in SUBSET DOMAIN t
    BY DEF P
  <2> QED BY <1>1, <1>2, <2>1, DownTheTree
<1> QED BY <1>3

\* A sequence begins with s, and so does the one with an element more.
LEMMA PrefixOfAppend ==
  ASSUME NEW S, NEW s \in Seq(S), NEW r \in Seq(S), NEW x \in S
  PROVE  IsPrefix(s, Append(r, x)) <=> IsPrefix(s, r) \/ s = Append(r, x)
<1> DEFINE a == Append(r, x)
<1>1. /\ a \in Seq(S) /\ Len(a) = Len(r) + 1 /\ Len(r) \in Nat /\ Len(s) \in Nat
      /\ \A i \in 1..Len(r) : a[i] = r[i]
  OBVIOUS
<1> HIDE DEF a
<1>2. CASE Len(s) <= Len(r)
  <2> DEFINE u == SubSeq(a, 1, Len(s))
             v == SubSeq(r, 1, Len(s))
  <2>1. u \in Seq(S) /\ v \in Seq(S) /\ Len(u) = Len(s) /\ Len(v) = Len(s)
    BY <1>1, <1>2
  <2>2. \A i \in 1..Len(s) : u[i] = a[i] /\ v[i] = r[i]
    BY <1>1, <1>2
  <2>3. \A i \in 1..Len(s) : i \in 1..Len(r)
    BY <1>1, <1>2
  <2> HIDE DEF u, v
  <2>4. u = v
    <3>1. \A i \in 1..Len(u) : u[i] = v[i]
      BY <1>1, <2>1, <2>2, <2>3
    <3> QED BY <2>1, <3>1, SeqEqual
  <2>5. IsPrefix(s, a) <=> IsPrefix(s, r)
    <3>1. Len(s) <= Len(a)
      BY <1>1, <1>2
    <3> QED BY <1>2, <2>4, <3>1 DEF IsPrefix, u, v
  <2>6. s # a
    BY <1>1, <1>2
  <2> QED BY <2>5, <2>6 DEF a
<1>3. CASE Len(s) > Len(r)
  <2>1. ~IsPrefix(s, r)
    BY <1>1, <1>3 DEF IsPrefix
  <2>2. SubSeq(s, 1, Len(s)) = s
    OBVIOUS
  <2>3. ASSUME IsPrefix(s, a) PROVE s = a
    <3>1. Len(s) <= Len(a) /\ SubSeq(s, 1, Len(s)) = SubSeq(a, 1, Len(s))
      BY <2>3 DEF IsPrefix
    <3>2. Len(s) = Len(a)
      BY <1>1, <1>3, <3>1
    <3>3. SubSeq(a, 1, Len(a)) = a
      BY <1>1
    <3> QED BY <2>2, <3>1, <3>2, <3>3
  <2>4. ASSUME s = a PROVE IsPrefix(s, a)
    BY <1>1, <2>4 DEF IsPrefix
  <2> QED BY <2>1, <2>3, <2>4 DEF a
<1> QED BY <1>1, <1>2, <1>3

\* S is src and what is below it.
Under(t, S, src) ==
  /\ src \in S /\ S \subseteq DOMAIN t /\ Root \notin S
  /\ \A m \in DOMAIN t \ {Root, src} : m \in S <=> t[m].parent \in S

\* What is below a node has a path that begins with the node's, and nothing else has.
LEMMA PathsBelow ==
  ASSUME NEW t, NEW d, Good(t, d), NEW f, Spelled(t, f), NEW S, NEW src, Under(t, S, src)
  PROVE  \A q \in DOMAIN t : IsPrefix(f[src], f[q]) <=> q \in S
<1> DEFINE P == {q \in DOMAIN t : IsPrefix(f[src], f[q]) <=> q \in S}
<1>0. src \in DOMAIN t \ {Root} /\ src \in S /\ Root \in DOMAIN t \ S
  BY DEF Under, Good, Typed
<1>1. Root \in P
  <2>1. f[src] \in Steps /\ Len(f[src]) = d[src] /\ f[Root] = <<>>
    BY <1>0, PathsTyped, PathIs
  <2>2. d[src] = d[t[src].parent] + 1 /\ d[t[src].parent] \in Nat
    BY <1>0, ParentIs
  <2>3. ~(Len(f[src]) <= 0)
    BY <2>1, <2>2
  <2>4. ~IsPrefix(f[src], f[Root])
    <3>1. Len(f[Root]) = 0
      BY <2>1
    <3> QED BY <2>3, <3>1 DEF IsPrefix
  <2> QED BY <1>0, <2>4
<1>2. ASSUME NEW q \in DOMAIN t \ {Root}, t[q].parent \in P PROVE q \in P
  <2>1. CASE q = src
    <3>1. f[src] \in Steps
      BY <1>0, PathsTyped
    <3>2. Len(f[src]) <= Len(f[src])
      <4> DEFINE s == f[src]
      <4>1. s \in Seq(Seq(Chars))
        BY <3>1 DEF Steps
      <4> HIDE DEF s
      <4>2. Len(s) <= Len(s)
        BY <4>1
      <4> QED BY <4>2 DEF s
    <3>3. IsPrefix(f[src], f[src])
      BY <3>2 DEF IsPrefix
    <3> QED BY <1>0, <2>1, <3>3
  <2>2. CASE q # src
    <3> DEFINE S0 == Seq(Chars)
               s == f[src]
               r == f[t[q].parent]
               x == t[q].name
    <3>1. t[q].parent \in DOMAIN t /\ x \in S0 /\ f[q] = Append(r, x)
      BY ParentIs, PathIs
    <3>2. s \in Seq(S0) /\ r \in Seq(S0)
      BY <1>0, <3>1, PathsTyped DEF Steps
    <3>3. s # f[q]
      BY <1>0, <2>2, PathsApart
    <3>4. IsPrefix(s, f[q]) <=> IsPrefix(s, r)
      <4> HIDE DEF s, r, x, S0
      <4>1. IsPrefix(s, Append(r, x)) <=> IsPrefix(s, r) \/ s = Append(r, x)
        BY <3>1, <3>2, PrefixOfAppend
      <4> QED BY <3>1, <3>3, <4>1
    <3>5. q \in S <=> t[q].parent \in S
      BY <2>2 DEF Under
    <3> QED BY <1>2, <3>4, <3>5
  <2> QED BY <2>1, <2>2
<1>3. P = DOMAIN t
  <2> HIDE DEF P
  <2>1. P \in SUBSET DOMAIN t
    BY DEF P
  <2> QED BY <1>1, <1>2, <2>1, DownTheTree
<1> QED BY <1>3

-----------------------------------------------------------------------------
\* The entries of a tree.

EntryOf(node) ==
  IF node.type = "dir" THEN [type |-> "dir"]
  ELSE [type |-> "file", text |-> node.text, learned |-> node.learned]

EntriesOf(t) ==
  [p \in Range(PathsOf(t)) |-> EntryOf(t[CHOOSE n \in DOMAIN t : PathsOf(t)[n] = p])]

\* At the path of each node is what the node is, and nothing is at other paths.
LEMMA EntriesAt ==
  ASSUME NEW t, NEW d, Good(t, d)
  PROVE  /\ DOMAIN EntriesOf(t) = {PathsOf(t)[n] : n \in DOMAIN t}
         /\ EntriesOf(t) = [p \in DOMAIN EntriesOf(t) |-> EntriesOf(t)[p]]
         /\ \A n \in DOMAIN t : EntriesOf(t)[PathsOf(t)[n]] = EntryOf(t[n])
<1> DEFINE f == PathsOf(t)
<1>1. Spelled(t, f)
  BY PathsExist
<1>2. DOMAIN f = DOMAIN t /\ \A n, m \in DOMAIN t : f[n] = f[m] => n = m
  BY <1>1, PathIs, PathsApart
<1>3. Range(f) = {f[n] : n \in DOMAIN t}
  BY <1>2 DEF Range
<1>4. ASSUME NEW n \in DOMAIN t PROVE (CHOOSE m \in DOMAIN t : f[m] = f[n]) = n
  BY <1>2
<1> DEFINE node(p) == CHOOSE m \in DOMAIN t : f[m] = p
<1>5. EntriesOf(t) = [p \in Range(f) |-> EntryOf(t[node(p)])]
  BY DEF EntriesOf
<1>6. \A n \in DOMAIN t : node(f[n]) = n
  BY <1>4
<1> HIDE DEF node, f
<1>7. /\ DOMAIN EntriesOf(t) = Range(f)
      /\ EntriesOf(t) = [p \in DOMAIN EntriesOf(t) |-> EntriesOf(t)[p]]
      /\ \A p \in Range(f) : EntriesOf(t)[p] = EntryOf(t[node(p)])
  BY <1>5
<1>8. ASSUME NEW n \in DOMAIN t PROVE EntriesOf(t)[f[n]] = EntryOf(t[n])
  <2>1. f[n] \in Range(f)
    BY <1>3
  <2> QED BY <1>6, <1>7, <2>1
<1> QED BY <1>3, <1>7, <1>8 DEF f

\* Nodes that keep their names and their places keep their paths.
LEMMA SamePaths ==
  ASSUME NEW t, NEW d, Good(t, d), NEW u, NEW e, Good(u, e), DOMAIN t \subseteq DOMAIN u,
         \A n \in DOMAIN t : u[n].name = t[n].name /\ u[n].parent = t[n].parent
  PROVE  \A n \in DOMAIN t : PathsOf(u)[n] = PathsOf(t)[n]
<1> DEFINE g == PathsOf(u)
           f == [n \in DOMAIN t |-> g[n]]
<1>1. Spelled(u, g) /\ Root \in DOMAIN t
  BY PathsExist DEF Good, Typed
<1> HIDE DEF g
<1>2. f[Root] = <<>>
  BY <1>1, PathIs
<1>3. ASSUME NEW n \in DOMAIN t \ {Root} PROVE f[n] = Append(f[t[n].parent], t[n].name)
  <2>1. t[n].parent \in DOMAIN t
    BY ParentIs
  <2>2. g[n] = Append(g[u[n].parent], u[n].name)
    BY <1>1, PathIs
  <2>3. f[n] = g[n] /\ f[t[n].parent] = g[t[n].parent]
    BY <2>1
  <2> HIDE DEF f
  <2> QED BY <2>2, <2>3
<1>4. Spelled(t, f)
  <2>1. f = [n \in DOMAIN t |-> f[n]]
    OBVIOUS
  <2> HIDE DEF f
  <2> QED BY <1>1, <1>2, <1>3, <2>1, SpelledIs
<1>5. f = PathsOf(t)
  <2> HIDE DEF f
  <2> QED BY <1>4, PathsFixed
<1> QED BY <1>5 DEF g

\* What an element more is in front of
LEMMA FrontOfAppend ==
  ASSUME NEW S, NEW s \in Seq(S), NEW x \in S
  PROVE  Front(Append(s, x)) = s
<1> DEFINE a == Append(s, x)
<1>1. a \in Seq(S) /\ Len(a) = Len(s) + 1 /\ Len(s) \in Nat /\ \A i \in 1..Len(s) : a[i] = s[i]
  OBVIOUS
<1> HIDE DEF a
<1> DEFINE b == SubSeq(a, 1, Len(s))
<1>2. Len(a) - 1 = Len(s)
  BY <1>1
<1>3. /\ b \in Seq(S) /\ Len(b) = Len(s)
      /\ \A i \in 1..Len(s) : b[i] = a[i]
  BY <1>1
<1> HIDE DEF b
<1>4. b = s
  BY <1>1, <1>3, SeqEqual
<1> QED BY <1>2, <1>4 DEF Front, a, b

\* The module Namespace has its own names for the operators on sequences.
LEMMA SameOperators ==
  /\ \A s, r : N!IsPrefix(s, r) <=> IsPrefix(s, r)
  /\ \A s : N!Front(s) = Front(s)
<1>1. \A s, r : N!IsPrefix(s, r) <=> IsPrefix(s, r)
  BY DEF N!IsPrefix, IsPrefix
<1>2. \A s : N!Front(s) = Front(s)
  BY DEF N!Front, Front
<1> QED BY <1>1, <1>2

\* An entry tells whether it is a directory.
LEMMA EntryType ==
  ASSUME NEW t, NEW d, Good(t, d), NEW n \in DOMAIN t
  PROVE  EntryOf(t[n]).type = t[n].type
<1>1. t[n].type = "dir" \/ t[n].type = "file"
  <2>1. t[n] \in NodeRecord
    BY DEF Good, Typed
  <2> QED BY <2>1 DEF NodeRecord
<1>2. CASE t[n].type = "dir"
  <2>1. EntryOf(t[n]) = [type |-> "dir"]
    BY <1>2 DEF EntryOf
  <2> QED BY <1>2, <2>1
<1>3. CASE t[n].type = "file"
  <2>1. EntryOf(t[n]) = [type |-> "file", text |-> t[n].text, learned |-> t[n].learned]
    BY <1>3 DEF EntryOf
  <2> QED BY <1>3, <2>1
<1> QED BY <1>1, <1>2, <1>3

\* A node below the root is in the directory that is its parent.
LEMMA PathInDirectory ==
  ASSUME NEW t, NEW d, Good(t, d), NEW n \in DOMAIN t \ {Root}
  PROVE  /\ Front(PathsOf(t)[n]) = PathsOf(t)[t[n].parent]
         /\ t[n].parent \in DOMAIN t /\ t[t[n].parent].type = "dir"
<1> DEFINE f == PathsOf(t)
           p == f[t[n].parent]
           S == Seq(Chars)
           x == t[n].name
<1>1. Spelled(t, f)
  BY PathsExist
<1>2. t[n].parent \in DOMAIN t /\ t[t[n].parent].type = "dir" /\ x \in S
  BY ParentIs
<1> HIDE DEF f
<1>3. p \in Seq(S)
  BY <1>1, <1>2, PathsTyped DEF Steps
<1>4. f[n] = Append(p, x)
  BY <1>1, PathIs
<1> HIDE DEF p, x, S
<1>5. Front(Append(p, x)) = p
  BY <1>2, <1>3, FrontOfAppend
<1> QED BY <1>2, <1>4, <1>5 DEF f, p

\* node_alloc and link_child make one entry more.
LEMMA CreatedEntry ==
  ASSUME NEW t, NEW d, Good(t, d), NEW u, NEW e, Good(u, e),
         NEW n \in DOMAIN u \ DOMAIN t, DOMAIN u = DOMAIN t \cup {n},
         Stay(t, u, DOMAIN t), u[n].parent \in DOMAIN t
  PROVE  N!Created(EntriesOf(t), EntriesOf(u))
<1> DEFINE f == PathsOf(t)
           g == PathsOf(u)
           was == EntriesOf(t)
           now == EntriesOf(u)
           p == g[n]
<1>1. \A m \in DOMAIN t : g[m] = f[m]
  BY SamePaths DEF Stay, Same
<1>2. \A m, k \in DOMAIN u : g[m] = g[k] => m = k
  BY PathsExist, PathsApart
<1>3. /\ DOMAIN was = {f[m] : m \in DOMAIN t} /\ DOMAIN now = {g[m] : m \in DOMAIN u}
      /\ now = [q \in DOMAIN now |-> now[q]]
      /\ \A m \in DOMAIN t : was[f[m]] = EntryOf(t[m])
      /\ \A m \in DOMAIN u : now[g[m]] = EntryOf(u[m])
  BY EntriesAt
<1>4. Front(p) = g[u[n].parent] /\ u[u[n].parent].type = "dir"
  <2>1. n # Root
    BY DEF Good, Typed
  <2> QED BY <2>1, PathInDirectory
<1> HIDE DEF f, g, was, now
<1>5. \A m \in DOMAIN t : EntryOf(u[m]) = EntryOf(t[m])
  BY DEF Stay, Same, EntryOf
<1>6. p \in DOMAIN now \ DOMAIN was
  BY <1>1, <1>2, <1>3
<1>7. DOMAIN now = DOMAIN was \cup {p}
  BY <1>1, <1>3
<1>8. \A q \in DOMAIN was : now[q] = was[q]
  BY <1>1, <1>3, <1>5
<1>9. N!InDirectory(was, p)
  <2>1. t[u[n].parent].type = "dir"
    BY <1>4 DEF Stay, Same
  <2>2. was[f[u[n].parent]].type = "dir"
    BY <1>3, <2>1, EntryType
  <2>3. Front(p) = f[u[n].parent]
    BY <1>1, <1>4
  <2> QED BY <1>3, <2>2, <2>3, SameOperators DEF N!InDirectory
<1>10. now = [q \in DOMAIN was \cup {p} |-> IF q = p THEN now[p] ELSE was[q]]
  BY <1>3, <1>7, <1>8
<1> QED BY <1>6, <1>9, <1>10 DEF N!Created, was, now

\* vfs_carve_bytes and learn change what one file is.
LEMMA ChangedEntry ==
  ASSUME NEW t, NEW d, Good(t, d), NEW u, NEW e, Good(u, e),
         NEW n \in DOMAIN t, DOMAIN u = DOMAIN t,
         Stay(t, u, DOMAIN t \ {n}), u[n].name = t[n].name, u[n].parent = t[n].parent,
         t[n].type = "file", u[n].type = "file"
  PROVE  N!Changed(EntriesOf(t), EntriesOf(u))
<1> DEFINE f == PathsOf(t)
           g == PathsOf(u)
           was == EntriesOf(t)
           now == EntriesOf(u)
<1>1. \A m \in DOMAIN t : g[m] = f[m]
  BY SamePaths DEF Stay, Same
<1>3. /\ DOMAIN was = {f[m] : m \in DOMAIN t} /\ DOMAIN now = {g[m] : m \in DOMAIN u}
      /\ \A m \in DOMAIN t : was[f[m]] = EntryOf(t[m])
      /\ \A m \in DOMAIN u : now[g[m]] = EntryOf(u[m])
  BY EntriesAt
<1> HIDE DEF f, g, was, now
<1>4. \A m \in DOMAIN t \ {n} : EntryOf(u[m]) = EntryOf(t[m])
  BY DEF Stay, Same, EntryOf
<1>5. DOMAIN now = DOMAIN was /\ f[n] \in DOMAIN was
  BY <1>1, <1>3
<1>6. was[f[n]].type = "file" /\ now[f[n]].type = "file"
  BY <1>1, <1>3, EntryType
<1>7. \A q \in DOMAIN was \ {f[n]} : now[q] = was[q]
  BY <1>1, <1>3, <1>4
<1> QED BY <1>5, <1>6, <1>7 DEF N!Changed, was, now

\* A node without children is a leaf among the paths.
LEMMA LeafPath ==
  ASSUME NEW t, NEW d, Good(t, d), NEW n \in DOMAIN t \ {Root}, t[n].children = <<>>
  PROVE  N!IsLeaf(EntriesOf(t), PathsOf(t)[n])
<1> DEFINE f == PathsOf(t)
           was == EntriesOf(t)
<1>1. Under(t, {n}, n)
  <2>1. ASSUME NEW m \in DOMAIN t \ {Root, n} PROVE t[m].parent # n
    <3>1. t[m].parent \in DOMAIN t /\ Contains(t[t[m].parent].children, m)
      BY DEF Good, ParentKnows
    <3>2. SUFFICES ASSUME t[m].parent = n PROVE FALSE
      OBVIOUS
    <3>3. \E i \in 1..Len(t[n].children) : TRUE
      BY <3>1, <3>2 DEF Contains
    <3> QED BY <3>3
  <2> QED BY <2>1 DEF Under
<1>2. Spelled(t, f)
  BY PathsExist
<1>3. DOMAIN was = {f[m] : m \in DOMAIN t}
  BY EntriesAt
<1> HIDE DEF f, was
<1>4. \A q \in DOMAIN t : IsPrefix(f[n], f[q]) <=> q \in {n}
  BY <1>1, <1>2, PathsBelow
<1>5. N!Below(was, f[n]) = {f[n]}
  BY <1>3, <1>4, SameOperators DEF N!Below
<1> QED BY <1>5 DEF N!IsLeaf, f, was

\* vfs_burn takes one leaf away.
LEMMA DeletedEntry ==
  ASSUME NEW t, NEW d, Good(t, d), NEW u, NEW e, Good(u, e),
         NEW n \in DOMAIN t \ {Root}, DOMAIN u = DOMAIN t \ {n}, t[n].children = <<>>,
         Stay(t, u, DOMAIN u)
  PROVE  N!Deleted(EntriesOf(t), EntriesOf(u))
<1> DEFINE f == PathsOf(t)
           g == PathsOf(u)
           was == EntriesOf(t)
           now == EntriesOf(u)
           p == f[n]
<1>1. \A m \in DOMAIN u : f[m] = g[m]
  <2>1. \A m \in DOMAIN u : t[m].name = u[m].name /\ t[m].parent = u[m].parent
    BY DEF Stay, Same
  <2> QED BY <2>1, SamePaths
<1>2. \A m, k \in DOMAIN t : f[m] = f[k] => m = k
  BY PathsExist, PathsApart
<1>3. /\ DOMAIN was = {f[m] : m \in DOMAIN t} /\ DOMAIN now = {g[m] : m \in DOMAIN u}
      /\ now = [q \in DOMAIN now |-> now[q]]
      /\ \A m \in DOMAIN t : was[f[m]] = EntryOf(t[m])
      /\ \A m \in DOMAIN u : now[g[m]] = EntryOf(u[m])
  BY EntriesAt
<1>4. N!IsLeaf(was, p)
  BY LeafPath
<1> HIDE DEF f, g, was, now
<1>5. \A m \in DOMAIN u : EntryOf(u[m]) = EntryOf(t[m])
  BY DEF Stay, Same, EntryOf
<1>6. p \in DOMAIN was \ DOMAIN now
  BY <1>1, <1>2, <1>3
<1>7. DOMAIN now = DOMAIN was \ {p}
  BY <1>1, <1>2, <1>3
<1>8. \A q \in DOMAIN now : now[q] = was[q]
  BY <1>1, <1>3, <1>5
<1>9. now = [q \in DOMAIN was \ {p} |-> was[q]]
  BY <1>3, <1>7, <1>8
<1> QED BY <1>4, <1>6, <1>9 DEF N!Deleted, was, now

-----------------------------------------------------------------------------
\* Moving.

\* Where a move of what is at p to q puts what is at r
ToPath(p, q, r) == q \o SubSeq(r, Len(p) + 1, Len(r))

\* The path of a node and the one of its child are moved alike.
LEMMA ToPathIs ==
  ASSUME NEW S, NEW p \in Seq(S), NEW q \in Seq(S), NEW r \in Seq(S), NEW x \in S,
         Len(p) <= Len(r)
  PROVE  /\ ToPath(p, q, p) = q
         /\ ToPath(p, q, Append(r, x)) = Append(ToPath(p, q, r), x)
<1> DEFINE k == Len(p)
           n == Len(r)
           a == Append(r, x)
           b == SubSeq(a, k + 1, n + 1)
           c == SubSeq(r, k + 1, n)
<1>1. k \in Nat /\ n \in Nat /\ k <= n
  OBVIOUS
<1>2. a \in Seq(S) /\ Len(a) = n + 1 /\ a[n + 1] = x /\ \A i \in 1..n : a[i] = r[i]
  OBVIOUS
<1> HIDE DEF k, a
<1>3. /\ b \in Seq(S) /\ Len(b) = (n + 1) - k
      /\ \A i \in 1..(n + 1) - k : b[i] = a[k + i]
  BY <1>1, <1>2
<1>4. /\ c \in Seq(S) /\ Len(c) = n - k
      /\ \A i \in 1..n - k : c[i] = r[k + i]
  BY <1>1
<1> HIDE DEF b, c, n
<1>5. b = Append(c, x)
  <2>1. Append(c, x) \in Seq(S) /\ Len(Append(c, x)) = Len(c) + 1
        /\ Append(c, x)[Len(c) + 1] = x
        /\ \A i \in 1..Len(c) : Append(c, x)[i] = c[i]
    BY <1>4
  <2>2. Len(b) = Len(Append(c, x))
    BY <1>1, <1>3, <1>4, <2>1
  <2>3. ASSUME NEW i \in 1..Len(b) PROVE b[i] = Append(c, x)[i]
    <3>1. CASE i <= n - k
      <4>1. i \in 1..n - k /\ k + i \in 1..n /\ i \in 1..(n + 1) - k
        BY <1>1, <1>3, <3>1
      <4>2. b[i] = r[k + i]
        BY <1>2, <1>3, <4>1
      <4>3. Append(c, x)[i] = r[k + i]
        BY <1>4, <2>1, <4>1
      <4> QED BY <4>2, <4>3
    <3>2. CASE ~(i <= n - k)
      <4>1. i = (n - k) + 1 /\ k + i = n + 1 /\ i \in 1..(n + 1) - k
        <5>1. i \in 1..(n + 1) - k /\ i \in Nat
          BY <1>3
        <5> QED BY <1>1, <3>2, <5>1
      <4>2. b[i] = x
        BY <1>2, <1>3, <4>1
      <4>3. i = Len(c) + 1
        BY <1>4, <4>1
      <4>4. Append(c, x)[i] = x
        BY <2>1, <4>3
      <4> QED BY <4>2, <4>4
    <3> QED BY <3>1, <3>2
  <2> HIDE DEF b, c
  <2>4. b \in Seq(S) /\ Append(c, x) \in Seq(S)
    BY <1>3, <2>1
  <2> QED BY <2>2, <2>3, <2>4, SeqEqual
<1>6. ToPath(p, q, p) = q
  <2>1. SubSeq(p, k + 1, k) = <<>>
    BY <1>1 DEF k
  <2>2. q \o <<>> = q
    OBVIOUS
  <2> QED BY <2>1, <2>2 DEF ToPath, k
<1>7. ToPath(p, q, a) = q \o b /\ ToPath(p, q, r) = q \o c
  BY <1>2 DEF ToPath, b, c, k, n
<1>8. q \o Append(c, x) = Append(q \o c, x)
  <2>1. Append(c, x) \in Seq(S) /\ Len(Append(c, x)) = Len(c) + 1
        /\ Append(c, x)[Len(c) + 1] = x
        /\ \A i \in 1..Len(c) : Append(c, x)[i] = c[i]
    BY <1>4
  <2> DEFINE y == Append(c, x)
  <2> HIDE DEF y
  <2> DEFINE u == q \o y
             v == q \o c
  <2>2. /\ u \in Seq(S) /\ Len(u) = Len(q) + Len(y)
        /\ \A i \in 1..Len(q) : u[i] = q[i]
        /\ \A i \in 1..Len(y) : u[Len(q) + i] = y[i]
    BY <2>1, Appended DEF y
  <2>3. /\ v \in Seq(S) /\ Len(v) = Len(q) + Len(c)
        /\ \A i \in 1..Len(q) : v[i] = q[i]
        /\ \A i \in 1..Len(c) : v[Len(q) + i] = c[i]
    <3>1. c \in Seq(S)
      BY <1>4
    <3> QED BY <3>1, Appended
  <2> HIDE DEF u, v
  <2>4. /\ Append(v, x) \in Seq(S) /\ Len(Append(v, x)) = Len(v) + 1
        /\ Append(v, x)[Len(v) + 1] = x
        /\ \A i \in 1..Len(v) : Append(v, x)[i] = v[i]
    BY <2>3
  <2>5. Len(q) \in Nat /\ Len(c) \in Nat /\ Len(y) = Len(c) + 1
    BY <1>4, <2>1 DEF y
  <2>6. Len(u) = Len(Append(v, x))
    BY <2>2, <2>3, <2>4, <2>5
  <2>7. ASSUME NEW i \in 1..Len(u) PROVE u[i] = Append(v, x)[i]
    <3>1. CASE i <= Len(q)
      <4>1. i \in 1..Len(q) /\ i \in 1..Len(v)
        BY <2>3, <2>5, <3>1
      <4> QED BY <2>2, <2>3, <2>4, <4>1
    <3>2. CASE ~(i <= Len(q)) /\ i <= Len(q) + Len(c)
      <4> DEFINE j == i - Len(q)
      <4>1. j \in 1..Len(c) /\ j \in 1..Len(y) /\ Len(q) + j = i /\ i \in 1..Len(v)
        BY <2>3, <2>5, <3>2
      <4> HIDE DEF j
      <4>2. u[i] = y[j] /\ v[i] = c[j] /\ y[j] = c[j]
        BY <2>1, <2>2, <2>3, <4>1 DEF y
      <4> QED BY <2>4, <4>1, <4>2
    <3>3. CASE ~(i <= Len(q) + Len(c))
      <4>0. i \in 1..Len(q) + Len(y)
        BY <2>2
      <4>a. Len(v) = Len(q) + Len(c)
        BY <2>3
      <4>b. \A a1, b1 \in Nat : \A j \in 1..a1 + (b1 + 1) :
              ~(j <= a1 + b1) => j = (a1 + b1) + 1 /\ j = a1 + (b1 + 1)
        OBVIOUS
      <4>c. i = (Len(q) + Len(c)) + 1 /\ i = Len(q) + (Len(c) + 1)
        BY <2>5, <3>3, <4>0, <4>b
      <4>1. i = Len(v) + 1 /\ i = Len(q) + Len(y) /\ Len(y) \in 1..Len(y)
        <5>1. Len(c) + 1 \in 1..Len(c) + 1
          BY <2>5
        <5> QED BY <2>5, <4>a, <4>c, <5>1
      <4>2. u[i] = y[Len(y)] /\ y[Len(y)] = x
        BY <2>1, <2>2, <2>5, <4>1 DEF y
      <4> QED BY <2>4, <4>1, <4>2
    <3> QED BY <3>1, <3>2, <3>3
  <2>8. u = Append(v, x)
    BY <2>2, <2>4, <2>6, <2>7, SeqEqual
  <2> QED BY <2>8 DEF u, v, y
<1> QED BY <1>5, <1>6, <1>7, <1>8 DEF a

\* The node src of t is in the directory dest of u under a name, with S below it, in the
\* place of what is in X.
MoveOf(t, u, S, src, dest, name, X) ==
  /\ Under(t, S, src)
  /\ X \subseteq DOMAIN t \ S /\ DOMAIN u = DOMAIN t \ X
  /\ \A x \in X : /\ x # Root /\ t[x].children = <<>>
                  /\ PathsOf(t)[x] = Append(PathsOf(t)[dest], name)
  /\ dest \in DOMAIN u \ S
  /\ Stay(t, u, DOMAIN u \ {src})
  /\ u[src].name = name /\ u[src].parent = dest
  /\ EntryOf(u[src]) = EntryOf(t[src])

\* What is below the node that is moved goes with it, and the other paths stay.
LEMMA MovedPaths ==
  ASSUME NEW t, NEW d, Good(t, d), NEW u, NEW e, Good(u, e),
         NEW S, NEW src, NEW dest, NEW name, NEW X, MoveOf(t, u, S, src, dest, name, X)
  PROVE  /\ PathsOf(u)[src] = Append(PathsOf(t)[dest], name)
         /\ \A m \in DOMAIN u \ S : PathsOf(u)[m] = PathsOf(t)[m]
         /\ \A m \in S : PathsOf(u)[m] =
              ToPath(PathsOf(t)[src], Append(PathsOf(t)[dest], name), PathsOf(t)[m])
<1> DEFINE f == PathsOf(t)
           p == f[src]
           q == Append(f[dest], name)
           h == [m \in DOMAIN u |-> IF m \in S THEN ToPath(p, q, f[m]) ELSE f[m]]
           S0 == Seq(Chars)
<1>1. Spelled(t, f)
  BY PathsExist
<1> HIDE DEF f
<1>2. /\ src \in S /\ src \in DOMAIN u \ {Root} /\ S \subseteq DOMAIN u
      /\ dest \in DOMAIN u \ S /\ Root \in DOMAIN u \ S /\ DOMAIN u \subseteq DOMAIN t
  BY DEF MoveOf, Under, Good, Typed
<1>3. \A m \in DOMAIN u \ {Root, src} : m \in S <=> u[m].parent \in S
  BY <1>2 DEF MoveOf, Under, Stay
<1>4. \A m \in DOMAIN u : f[m] \in Seq(S0) /\ f[m] \in Steps
  BY <1>1, <1>2, PathsTyped DEF Steps
<1>5. name \in S0
  BY <1>2, ParentIs DEF MoveOf
<1>6. p \in Seq(S0) /\ q \in Seq(S0)
  <2>1. f[dest] \in Seq(S0)
    BY <1>2, <1>4
  <2> HIDE DEF S0
  <2> QED BY <1>2, <1>4, <1>5, <2>1, AppendProperties
<1>7. /\ \A m \in DOMAIN u \ S : h[m] = f[m]
      /\ \A m \in S : h[m] = ToPath(p, q, f[m])
      /\ h = [m \in DOMAIN u |-> h[m]]
  BY <1>2
<1>8. h[Root] = <<>>
  BY <1>1, <1>2, <1>7, PathIs
<1> HIDE DEF h
<1>9. h[src] = q
  <2>1. Len(p) <= Len(p)
    <3> HIDE DEF p
    <3>1. Len(p) \in Nat
      BY <1>6
    <3> QED BY <3>1
  <2> HIDE DEF p, q, S0
  <2>2. \A x \in S0 : ToPath(p, q, p) = q
    BY <1>6, <2>1, ToPathIs
  <2>3. ToPath(p, q, p) = q
    BY <1>5, <2>2
  <2> QED BY <1>2, <1>7, <2>3 DEF p
<1>10. ASSUME NEW n \in DOMAIN u \ {Root} PROVE h[n] = Append(h[u[n].parent], u[n].name)
  <2>1. u[n].parent \in DOMAIN u
    BY ParentIs
  <2>2. CASE n = src
    <3>1. u[n].parent = dest /\ u[n].name = name
      BY <2>2 DEF MoveOf
    <3>2. h[dest] = f[dest]
      BY <1>2, <1>7
    <3> QED BY <1>9, <2>2, <3>1, <3>2
  <2>3. CASE n # src
    <3>1. u[n].parent = t[n].parent /\ u[n].name = t[n].name
      BY <2>3 DEF MoveOf, Stay, Same
    <3>2. f[n] = Append(f[u[n].parent], u[n].name)
      BY <1>1, <1>2, <3>1, PathIs
    <3>3. CASE n \notin S
      <4>1. u[n].parent \notin S
        BY <1>3, <2>3, <3>3
      <4> QED BY <1>7, <2>1, <3>2, <3>3, <4>1
    <3>4. CASE n \in S
      <4> DEFINE r == f[u[n].parent]
                 x == u[n].name
      <4>1. u[n].parent \in S
        BY <1>3, <2>3, <3>4
      <4>2. r \in Seq(S0) /\ x \in S0
        BY <1>4, <2>1, ParentIs
      <4>3. Len(p) <= Len(r)
        <5>1. IsPrefix(f[src], f[u[n].parent])
          BY <1>1, <1>2, <2>1, <4>1, PathsBelow DEF MoveOf
        <5> QED BY <5>1 DEF IsPrefix
      <4>4. ToPath(p, q, Append(r, x)) = Append(ToPath(p, q, r), x)
        <5> HIDE DEF p, q, r, x, S0
        <5> QED BY <1>6, <4>2, <4>3, ToPathIs
      <4> QED BY <1>7, <3>2, <3>4, <4>1, <4>4
    <3> QED BY <3>3, <3>4
  <2> QED BY <2>2, <2>3
<1>11. Spelled(u, h)
  BY <1>2, <1>7, <1>8, <1>10, SpelledIs
<1>12. h = PathsOf(u)
  BY <1>11, PathsFixed
<1> QED BY <1>7, <1>9, <1>12 DEF f

\* A node that is moved to where it was under its name is where it was.
LEMMA MovedNowhere ==
  ASSUME NEW t, NEW d, Good(t, d), NEW u, NEW e, Good(u, e),
         NEW S, NEW src, NEW dest, NEW name, NEW X, MoveOf(t, u, S, src, dest, name, X),
         PathsOf(t)[src] = PathsOf(u)[src]
  PROVE  EntriesOf(u) = EntriesOf(t) /\ \A m \in DOMAIN t : PathsOf(u)[m] = PathsOf(t)[m]
<1> DEFINE f == PathsOf(t)
           g == PathsOf(u)
           S0 == Seq(Chars)
           sp == t[src].parent
           x == t[src].name
<1>1. Spelled(t, f)
  BY PathsExist
<1>2. f[src] = Append(f[dest], name)
  BY MovedPaths
<1>3. /\ src \in DOMAIN t \ {Root} /\ src \in S /\ src \in DOMAIN u /\ dest \in DOMAIN t
      /\ X \subseteq DOMAIN t \ S /\ DOMAIN u = DOMAIN t \ X /\ Root \in DOMAIN u
  BY DEF MoveOf, Under, Good, Typed
<1>4. \A m, k \in DOMAIN t : f[m] = f[k] => m = k
  BY <1>1, PathsApart
<1>5. X = {}
  <2>1. ASSUME NEW y \in X PROVE FALSE
    <3>1. f[y] = f[src] /\ y \in DOMAIN t /\ y # src
      BY <1>2, <1>3 DEF MoveOf
    <3> QED BY <1>3, <1>4, <3>1
  <2> QED BY <2>1
<1>6. sp \in DOMAIN t /\ x \in S0 /\ name \in S0
  <2>1. name \in Seq(Chars)
    BY <1>3, ParentIs DEF MoveOf, Under
  <2> QED BY <1>3, <2>1, ParentIs
<1>7. f[src] = Append(f[sp], x)
  BY <1>1, <1>3, PathIs
<1>8. f[sp] \in Seq(S0) /\ f[dest] \in Seq(S0)
  BY <1>1, <1>3, <1>6, PathsTyped DEF Steps
<1>9. f[sp] = f[dest] /\ x = name
  <2> DEFINE r == f[sp]
             s == f[dest]
  <2>1. Append(r, x) = Append(s, name)
    BY <1>2, <1>7
  <2>2. r \in Seq(S0) /\ s \in Seq(S0)
    BY <1>8
  <2> HIDE DEF r, s, x, S0
  <2>3. r = s /\ x = name
    BY <1>6, <2>1, <2>2, AppendsEqual
  <2> QED BY <2>3 DEF r, s
<1>10. sp = dest
  BY <1>3, <1>4, <1>6, <1>9
<1>11. /\ DOMAIN u = DOMAIN t
       /\ \A m \in DOMAIN t : /\ u[m].name = t[m].name /\ u[m].parent = t[m].parent
                              /\ EntryOf(u[m]) = EntryOf(t[m])
  <2>1. DOMAIN u = DOMAIN t
    BY <1>3, <1>5
  <2>2. u[src].name = t[src].name /\ u[src].parent = t[src].parent
        /\ EntryOf(u[src]) = EntryOf(t[src])
    BY <1>9, <1>10 DEF MoveOf
  <2>3. \A m \in DOMAIN t \ {src} :
          /\ u[m].name = t[m].name /\ u[m].parent = t[m].parent
          /\ EntryOf(u[m]) = EntryOf(t[m])
    BY <2>1 DEF MoveOf, Stay, Same, EntryOf
  <2> QED BY <2>1, <2>2, <2>3
<1>12. \A m \in DOMAIN t : g[m] = f[m]
  BY <1>11, SamePaths
<1>13. /\ DOMAIN EntriesOf(t) = {f[m] : m \in DOMAIN t}
       /\ EntriesOf(t) = [q \in DOMAIN EntriesOf(t) |-> EntriesOf(t)[q]]
       /\ \A m \in DOMAIN t : EntriesOf(t)[f[m]] = EntryOf(t[m])
  BY EntriesAt
<1>14. /\ DOMAIN EntriesOf(u) = {g[m] : m \in DOMAIN u}
       /\ EntriesOf(u) = [q \in DOMAIN EntriesOf(u) |-> EntriesOf(u)[q]]
       /\ \A m \in DOMAIN u : EntriesOf(u)[g[m]] = EntryOf(u[m])
  BY EntriesAt
<1> HIDE DEF f, g
<1>15. DOMAIN EntriesOf(u) = DOMAIN EntriesOf(t)
  BY <1>11, <1>12, <1>13, <1>14
<1>16. \A q \in DOMAIN EntriesOf(t) : EntriesOf(u)[q] = EntriesOf(t)[q]
  BY <1>11, <1>12, <1>13, <1>14
<1>17. EntriesOf(u) = EntriesOf(t)
  BY <1>13, <1>14, <1>15, <1>16
<1> QED BY <1>12, <1>17 DEF f, g

\* vfs_warp moves a directory with all that is in it, or a file, and replaces at most a leaf.
LEMMA MovedEntries ==
  ASSUME NEW t, NEW d, Good(t, d), NEW u, NEW e, Good(u, e),
         NEW S, NEW src, NEW dest, NEW name, NEW X, MoveOf(t, u, S, src, dest, name, X),
         PathsOf(t)[src] # PathsOf(u)[src],
         NEW c \in DOMAIN t \ S, PathOf[cwd] = PathsOf(t)[c]
  PROVE  N!Moved(EntriesOf(t), EntriesOf(u))
<1> DEFINE f == PathsOf(t)
           g == PathsOf(u)
           was == EntriesOf(t)
           now == EntriesOf(u)
           p == f[src]
           q == g[src]
           S0 == Seq(Chars)
<1>1. Spelled(t, f) /\ Spelled(u, g)
  BY PathsExist
<1>2. /\ q = Append(f[dest], name) /\ \A m \in DOMAIN u \ S : g[m] = f[m]
      /\ \A m \in S : g[m] = ToPath(p, q, f[m])
  <2>1. /\ q = Append(f[dest], name) /\ \A m \in DOMAIN u \ S : g[m] = f[m]
        /\ \A m \in S : g[m] = ToPath(p, Append(f[dest], name), f[m])
    BY MovedPaths
  <2> HIDE DEF f, g, p, q
  <2> QED BY <2>1
<1>3. /\ src \in DOMAIN t \ {Root} /\ src \in S /\ src \in DOMAIN u \ {Root}
      /\ S \subseteq DOMAIN u /\ dest \in DOMAIN u \ S /\ Root \in DOMAIN u \ S
      /\ DOMAIN u = DOMAIN t \ X /\ X \subseteq DOMAIN t \ S
      /\ DOMAIN u \subseteq DOMAIN t
  BY DEF MoveOf, Under, Good, Typed
<1>4. /\ \A m, k \in DOMAIN t : f[m] = f[k] => m = k
      /\ \A m, k \in DOMAIN u : g[m] = g[k] => m = k
  BY <1>1, PathsApart
<1>5. \A m \in DOMAIN t : IsPrefix(p, f[m]) <=> m \in S
  BY <1>1, PathsBelow DEF MoveOf
<1>6. /\ DOMAIN was = {f[m] : m \in DOMAIN t} /\ DOMAIN now = {g[m] : m \in DOMAIN u}
      /\ now = [r \in DOMAIN now |-> now[r]]
      /\ \A m \in DOMAIN t : was[f[m]] = EntryOf(t[m])
      /\ \A m \in DOMAIN u : now[g[m]] = EntryOf(u[m])
  BY EntriesAt
<1>7. \A m \in DOMAIN u : EntryOf(u[m]) = EntryOf(t[m])
  <2>1. \A m \in DOMAIN u \ {src} : EntryOf(u[m]) = EntryOf(t[m])
    BY DEF MoveOf, Stay, Same, EntryOf
  <2> QED BY <2>1 DEF MoveOf
<1>8. q # p
  OBVIOUS
<1>9. N!Below(was, p) = {f[m] : m \in S}
  <2> HIDE DEF f, was
  <2>1. ASSUME NEW r \in DOMAIN was PROVE N!IsPrefix(p, r) <=> r \in {f[m] : m \in S}
    <3>1. PICK m \in DOMAIN t : r = f[m]
      BY <1>6
    <3>2. N!IsPrefix(p, r) <=> m \in S
      BY <1>5, <3>1, SameOperators
    <3> QED BY <1>3, <1>4, <3>1, <3>2
  <2>2. {f[m] : m \in S} \subseteq DOMAIN was
    BY <1>3, <1>6
  <2> QED BY <2>1, <2>2 DEF N!Below
<1>10. p \in DOMAIN was /\ q \in DOMAIN now
  BY <1>3, <1>6
<1>11. p \notin DOMAIN now
  <2> SUFFICES ASSUME NEW m \in DOMAIN u, g[m] = p PROVE FALSE
    BY <1>6
  <2> DEFINE sp == t[src].parent
  <2>1. m \in S
    BY <1>2, <1>3, <1>4
  <2>2. m # src
    BY <1>8
  <2>3. Front(p) = f[sp] /\ sp \in DOMAIN t
    BY <1>3, PathInDirectory
  <2>4. Front(g[m]) = g[u[m].parent] /\ u[m].parent \in DOMAIN u
    <3>1. m # Root
      BY <1>3, <2>1
    <3> QED BY <3>1, PathInDirectory
  <2>5. u[m].parent \in S
    <3>1. u[m].parent = t[m].parent
      BY <2>2 DEF MoveOf, Stay
    <3>2. m \in DOMAIN t \ {Root, src}
      BY <1>3, <2>1, <2>2
    <3> QED BY <2>1, <3>1, <3>2 DEF MoveOf, Under
  <2>6. sp \notin S
    <3>1. d[src] = d[sp] + 1 /\ d[sp] \in Nat
      BY <1>3, ParentIs
    <3>2. Len(p) = d[src] /\ Len(f[sp]) = d[sp]
      BY <1>1, <1>3, <2>3, PathsTyped
    <3>3. ~(Len(p) <= Len(f[sp]))
      BY <3>1, <3>2
    <3>4. ~IsPrefix(p, f[sp])
      BY <3>3 DEF IsPrefix
    <3> QED BY <1>5, <2>3, <3>4
  <2>7. sp \in DOMAIN u
    <3>1. ASSUME NEW y \in X PROVE y # sp
      <4>1. t[y].children = <<>>
        BY DEF MoveOf
      <4>2. Contains(t[sp].children, src)
        BY <1>3 DEF Good, ParentKnows
      <4>3. \E i \in 1..Len(t[sp].children) : TRUE
        BY <4>2 DEF Contains
      <4> QED BY <4>1, <4>3
    <3> QED BY <1>3, <2>3, <3>1
  <2>8. f[sp] = g[sp]
    BY <1>2, <2>6, <2>7
  <2>9. sp = u[m].parent
    BY <1>4, <2>3, <2>4, <2>7, <2>8
  <2> QED BY <2>5, <2>6, <2>9
<1>12. ~IsPrefix(p, q)
  <2>1. ~IsPrefix(p, f[dest])
    BY <1>3, <1>5
  <2>2. f[dest] \in Seq(S0) /\ p \in Seq(S0) /\ name \in S0
    <3>1. name \in Seq(Chars)
      BY <1>3, ParentIs DEF MoveOf
    <3> QED BY <1>1, <1>3, <3>1, PathsTyped DEF Steps
  <2> DEFINE r == f[dest]
  <2> HIDE DEF p, r, S0
  <2>3. IsPrefix(p, Append(r, name)) <=> IsPrefix(p, r) \/ p = Append(r, name)
    BY <2>2, PrefixOfAppend DEF r
  <2> QED BY <1>2, <1>8, <2>1, <2>3 DEF r
<1>13. ~IsPrefix(p, PathOf[cwd])
  BY <1>5
<1>14. N!InDirectory(was, q)
  <2>1. Front(q) = f[dest] /\ u[dest].type = "dir"
    <3>1. Front(q) = g[dest] /\ u[dest].type = "dir"
      BY <1>3, PathInDirectory DEF MoveOf
    <3> QED BY <1>2, <1>3, <3>1
  <2>2. EntryOf(t[dest]).type = "dir"
    BY <1>3, <1>7, <2>1, EntryType
  <2>3. was[f[dest]].type = "dir" /\ f[dest] \in DOMAIN was
    BY <1>3, <1>6, <2>2
  <2> HIDE DEF was, f, g
  <2> QED BY <2>1, <2>3, SameOperators DEF N!InDirectory
<1>15. ASSUME q \in DOMAIN was PROVE N!IsLeaf(was, q)
  <2>1. PICK k \in DOMAIN t : q = f[k]
    BY <1>6, <1>15
  <2>2. k \in X
    <3> SUFFICES ASSUME k \in DOMAIN u PROVE FALSE
      BY <1>3
    <3>1. k \notin S
      BY <1>5, <1>12, <2>1
    <3>2. g[k] = g[src]
      BY <1>2, <2>1, <3>1
    <3> QED BY <1>3, <1>4, <3>1, <3>2
  <2>3. k \in DOMAIN t \ {Root} /\ t[k].children = <<>>
    BY <2>2 DEF MoveOf
  <2> QED BY <2>1, <2>3, LeafPath
<1> DEFINE under == N!Below(was, p)
           stays == DOMAIN was \ (under \cup {q})
           to(r) == ToPath(p, q, r)
           moved == {to(s) : s \in under}
<1> HIDE DEF f, g, was, now, p, q
<1> HIDE DEF under
<1>a. under = {f[m] : m \in S}
  BY <1>9 DEF under
<1>16. stays = {f[m] : m \in DOMAIN u \ S}
  <2>1. ASSUME NEW m \in DOMAIN u \ S PROVE f[m] \in stays
    <3>1. f[m] # q
      BY <1>2, <1>3, <1>4, <2>1 DEF q
    <3>2. f[m] \in DOMAIN was /\ f[m] \notin under
      BY <1>3, <1>4, <1>6, <1>a
    <3> QED BY <3>1, <3>2
  <2>2. ASSUME NEW r \in stays PROVE r \in {f[m] : m \in DOMAIN u \ S}
    <3>1. PICK m \in DOMAIN t : r = f[m]
      BY <1>6
    <3>2. m \notin S /\ f[m] # q
      BY <1>a, <3>1
    <3>3. m \notin X
      BY <1>2, <3>2 DEF MoveOf, f
    <3> QED BY <1>3, <3>1, <3>2, <3>3
  <2> QED BY <2>1, <2>2
<1>17. moved = {g[m] : m \in S}
  BY <1>2, <1>a
<1>18. DOMAIN now = stays \cup moved
  <2>1. {g[m] : m \in DOMAIN u \ S} = {f[m] : m \in DOMAIN u \ S}
    BY <1>2
  <2>2. {g[m] : m \in DOMAIN u} = {g[m] : m \in DOMAIN u \ S} \cup {g[m] : m \in S}
    BY <1>3
  <2> HIDE DEF stays, moved
  <2> QED BY <1>6, <1>16, <1>17, <2>1, <2>2
<1>19. \A r \in stays : now[r] = was[r]
  <2> HIDE DEF stays
  <2> QED BY <1>2, <1>3, <1>6, <1>7, <1>16
<1>20. ASSUME NEW r \in moved PROVE now[r] = was[CHOOSE s \in under : to(s) = r]
  <2> DEFINE from == CHOOSE s \in under : to(s) = r
  <2>1. \E s \in under : to(s) = r
    BY <1>20
  <2>2. from \in under /\ to(from) = r
    BY <2>1
  <2> HIDE DEF from
  <2>3. PICK m \in S : from = f[m]
    BY <1>a, <2>2
  <2>4. r = g[m] /\ m \in DOMAIN u /\ m \in DOMAIN t
    BY <1>2, <1>3, <2>2, <2>3
  <2>5. now[r] = was[from]
    BY <1>6, <1>7, <2>3, <2>4
  <2> QED BY <2>5 DEF from
<1>21. now = [r \in stays \cup moved |->
                IF r \in stays THEN was[r] ELSE was[CHOOSE s \in under : to(s) = r]]
  <2> DEFINE back(r) == was[CHOOSE s \in under : to(s) = r]
  <2>1. \A r \in moved : now[r] = back(r)
    BY <1>20
  <2> HIDE DEF stays, moved, back, to
  <2>2. now = [r \in stays \cup moved |-> IF r \in stays THEN was[r] ELSE back(r)]
    BY <1>6, <1>18, <1>19, <2>1
  <2> QED BY <2>2 DEF back
<1>22. N!MovedTo(was, now, p, q)
  <2>1. ~N!IsPrefix(p, q) /\ ~N!IsPrefix(p, PathOf[cwd])
    BY <1>12, <1>13, SameOperators
  <2> QED BY <1>14, <1>15, <1>21, <2>1, Zenon DEF N!MovedTo, ToPath, under
<1> QED BY <1>10, <1>11, <1>22 DEF N!Moved, was, now

-----------------------------------------------------------------------------
\* Steps of the tree are steps of the paths.

\* The paths and entries of VfsTree are those of its tree.
LEMMA PathsAre == PathOf = PathsOf(tree) /\ (PathOf)' = PathsOf(tree')
<1>1. PathOf = PathsOf(tree)
  BY DEF PathOf, PathsOf, Spelled, Nodes
<1>2. (PathOf)' = PathsOf(tree')
  BY DEF PathOf, PathsOf, Spelled, Nodes
<1> QED BY <1>1, <1>2

LEMMA EntriesAre == Entries = EntriesOf(tree) /\ Entries' = EntriesOf(tree')
<1>1. \A n : Entry(n) = EntryOf(tree[n])
  BY DEF Entry, EntryOf, IsDir
<1>2. \A n : (Entry(n))' = EntryOf(tree'[n])
  BY DEF Entry, EntryOf, IsDir
<1>3. Entries = EntriesOf(tree)
  BY <1>1, PathsAre DEF Entries, EntriesOf, Nodes
<1>4. Entries' = EntriesOf(tree')
  BY <1>2, PathsAre DEF Entries, EntriesOf, Nodes
<1> QED BY <1>3, <1>4

\* The working directory keeps its path.
PlaceStays == UNCHANGED cwd /\ PathsOf(tree')[cwd] = PathsOf(tree)[cwd]

LEMMA Operated ==
  ASSUME PlaceStays,
         \/ N!Created(EntriesOf(tree), EntriesOf(tree'))
         \/ N!Changed(EntriesOf(tree), EntriesOf(tree'))
         \/ N!Deleted(EntriesOf(tree), EntriesOf(tree'))
         \/ N!Moved(EntriesOf(tree), EntriesOf(tree'))
  PROVE  N!Next
<1> DEFINE was == EntriesOf(tree)
           now == EntriesOf(tree')
<1>1. Entries = was /\ Entries' = now
  BY EntriesAre
<1>2. (PathOf[cwd])' = PathOf[cwd]
  BY PathsAre DEF PlaceStays
<1> HIDE DEF was, now
<1>3. N!Created(was, now) \/ N!Changed(was, now) \/ N!Deleted(was, now) \/ N!Moved(was, now)
  BY DEF was, now
<1>4. N!Operate
  BY <1>1, <1>2, <1>3 DEF N!Operate
<1> QED BY <1>4 DEF N!Next

\* No entry and no place changes.
LEMMA NothingChanged ==
  ASSUME PlaceStays, EntriesOf(tree') = EntriesOf(tree)
  PROVE  UNCHANGED N!vars
  BY PathsAre, EntriesAre DEF PlaceStays, N!vars

\* The working directory stays where no node loses its path.
LEMMA StayingPlace ==
  ASSUME NEW d, Good(tree, d), NEW e, Good(tree', e), UNCHANGED cwd,
         cwd \in DOMAIN tree /\ cwd \in DOMAIN tree',
         NEW D, D = DOMAIN tree \/ D = DOMAIN tree',
         D \subseteq DOMAIN tree /\ D \subseteq DOMAIN tree',
         \A n \in D : tree'[n].name = tree[n].name /\ tree'[n].parent = tree[n].parent
  PROVE  PlaceStays
<1>1. CASE D = DOMAIN tree
  <2>1. \A n \in DOMAIN tree : PathsOf(tree')[n] = PathsOf(tree)[n]
    BY <1>1, SamePaths
  <2> QED BY <2>1 DEF PlaceStays
<1>2. CASE D = DOMAIN tree'
  <2>1. \A n \in DOMAIN tree' : PathsOf(tree)[n] = PathsOf(tree')[n]
    BY <1>2, SamePaths
  <2> QED BY <2>1 DEF PlaceStays
<1> QED BY <1>1, <1>2

\* What the invariant says of a step
StepOf(d, e) ==
  /\ Good(tree, d) /\ Good(tree', e)
  /\ cwd \in DOMAIN tree /\ cwd' \in DOMAIN tree'
  /\ tree[cwd].type = "dir" /\ tree'[cwd'].type = "dir"

\* mkdir, fab and the editor create a path.
LEMMA AddedPath ==
  ASSUME NEW d, NEW e, StepOf(d, e), IInv, PlainNames, NEW type \in {"dir", "file"},
         NEW name \in Names, Added(type, name), UNCHANGED cwd
  PROVE  N!Next
<1>1. Good(tree, d) /\ Good(tree', e) /\ cwd \in DOMAIN tree /\ cwd \in DOMAIN tree'
  BY DEF StepOf
<1> DEFINE n == Unused
<1>2. /\ n \notin DOMAIN tree /\ DOMAIN tree' = DOMAIN tree \cup {n}
      /\ Stay(tree, tree', DOMAIN tree) /\ tree'[n].parent = cwd
  BY AddedKept DEF Nodes
<1> HIDE DEF n
<1>3. PlaceStays
  <2>1. \A m \in DOMAIN tree : tree'[m].name = tree[m].name /\ tree'[m].parent = tree[m].parent
    BY <1>2 DEF Stay, Same
  <2>2. DOMAIN tree \subseteq DOMAIN tree'
    BY <1>2
  <2> QED BY <1>1, <2>1, <2>2, StayingPlace
<1>4. N!Created(EntriesOf(tree), EntriesOf(tree'))
  <2>1. n \in DOMAIN tree' \ DOMAIN tree /\ tree'[n].parent \in DOMAIN tree
    BY <1>1, <1>2
  <2> QED BY <1>1, <1>2, <2>1, CreatedEntry
<1> QED BY <1>3, <1>4, Operated

\* carve, learn and the editor change a file.
LEMMA ChangedPath ==
  ASSUME NEW d, NEW e, StepOf(d, e), NEW n \in Nodes, ~IsDir(n), NEW new \in NodeRecord,
         tree' = [tree EXCEPT ![n] = new], new.name = tree[n].name,
         new.parent = tree[n].parent, new.type = tree[n].type, UNCHANGED cwd
  PROVE  N!Next
<1>1. Good(tree, d) /\ Good(tree', e) /\ cwd \in DOMAIN tree /\ cwd \in DOMAIN tree'
  BY DEF StepOf
<1>2. /\ DOMAIN tree' = DOMAIN tree /\ n \in DOMAIN tree /\ tree'[n] = new
      /\ \A m \in DOMAIN tree \ {n} : tree'[m] = tree[m]
  <2>1. tree = [m \in DOMAIN tree |-> tree[m]]
    BY <1>1 DEF Good, Typed
  <2> QED BY <2>1 DEF Nodes
<1>3. tree[n].type = "file"
  <2>1. tree[n] \in NodeRecord
    BY <1>1, <1>2 DEF Good, Typed
  <2> QED BY <2>1 DEF IsDir, NodeRecord
<1>4. PlaceStays
  <2>1. \A m \in DOMAIN tree : tree'[m].name = tree[m].name /\ tree'[m].parent = tree[m].parent
    BY <1>2
  <2>2. DOMAIN tree \subseteq DOMAIN tree'
    BY <1>2
  <2> QED BY <1>1, <2>1, <2>2, StayingPlace
<1>5. N!Changed(EntriesOf(tree), EntriesOf(tree'))
  <2>1. Stay(tree, tree', DOMAIN tree \ {n})
    BY <1>2 DEF Stay, Same
  <2>2. /\ tree'[n].name = tree[n].name /\ tree'[n].parent = tree[n].parent
        /\ tree'[n].type = "file"
    BY <1>2, <1>3
  <2> QED BY <1>1, <1>2, <1>3, <2>1, <2>2, ChangedEntry
<1> QED BY <1>4, <1>5, Operated

\* vfs_carve_bytes changes a file.
LEMMA CarvedPath ==
  ASSUME NEW d, NEW e, StepOf(d, e), NEW n \in Nodes, ~IsDir(n),
         NEW text \in {"carved", "edited"}, Carved(n, text), UNCHANGED cwd
  PROVE  N!Next
<1> DEFINE r == tree[n]
           new == [r EXCEPT !.text = text]
<1>1. r \in NodeRecord /\ text \in {"empty", "carved", "edited"}
  BY DEF StepOf, Good, Typed, Nodes
<1>2. tree' = [tree EXCEPT ![n] = new]
  BY DEF Carved
<1> HIDE DEF r
<1>3. /\ new \in NodeRecord /\ new.name = r.name /\ new.type = r.type
      /\ new.parent = r.parent
  BY <1>1 DEF NodeRecord
<1> HIDE DEF new
<1>4. new.name = tree[n].name /\ new.type = tree[n].type /\ new.parent = tree[n].parent
  BY <1>3 DEF r
<1> QED BY <1>2, <1>3, <1>4, ChangedPath

\* learn changes a file.
LEMMA LearnedPath ==
  ASSUME NEW d, NEW e, StepOf(d, e), NEW n \in Nodes, ~IsDir(n),
         tree' = [tree EXCEPT ![n].learned = TRUE], UNCHANGED cwd
  PROVE  N!Next
<1> DEFINE r == tree[n]
           new == [r EXCEPT !.learned = TRUE]
<1>1. r \in NodeRecord
  BY DEF StepOf, Good, Typed, Nodes
<1>2. tree' = [tree EXCEPT ![n] = new]
  OBVIOUS
<1> HIDE DEF r
<1>3. /\ new \in NodeRecord /\ new.name = r.name /\ new.type = r.type
      /\ new.parent = r.parent
  BY <1>1 DEF NodeRecord
<1> HIDE DEF new
<1>4. new.name = tree[n].name /\ new.type = tree[n].type /\ new.parent = tree[n].parent
  BY <1>3 DEF r
<1> QED BY <1>2, <1>3, <1>4, ChangedPath

\* burn deletes a path.
LEMMA BurntPath ==
  ASSUME NEW d, NEW e, StepOf(d, e), NEW n \in Nodes \ {Root}, tree[n].children = <<>>,
         tree' = Freeing(Unlinked(tree, n), Subtree(n)), UNCHANGED cwd
  PROVE  N!Next
<1>1. Good(tree, d) /\ Good(tree', e) /\ cwd \in DOMAIN tree /\ cwd \in DOMAIN tree'
  BY DEF StepOf
<1>2. tree' = Freeing(Unlinked(tree, n), {n})
  <2>1. Subtree(n) = {n}
    BY <1>1, NoChild
  <2> QED BY <2>1
<1> DEFINE u == Freeing(Unlinked(tree, n), {n})
<1>3. n \in DOMAIN tree \ {Root}
  BY DEF Nodes
<1>4. /\ DOMAIN u = DOMAIN tree \ {n}
      /\ \A m \in DOMAIN tree \ {n} : Same(u[m], tree[m]) /\ u[m].parent = tree[m].parent
  BY <1>1, <1>3, DeletedKeeps
<1> HIDE DEF u
<1>5. DOMAIN tree' = DOMAIN tree \ {n} /\ Stay(tree, tree', DOMAIN tree')
  BY <1>2, <1>4 DEF Stay, u
<1>6. PlaceStays
  <2>1. \A m \in DOMAIN tree' : tree'[m].name = tree[m].name /\ tree'[m].parent = tree[m].parent
    BY <1>5 DEF Stay, Same
  <2>2. DOMAIN tree' \subseteq DOMAIN tree
    BY <1>5
  <2> QED BY <1>1, <2>1, <2>2, StayingPlace
<1>7. N!Deleted(EntriesOf(tree), EntriesOf(tree'))
  BY <1>1, <1>3, <1>5, DeletedEntry
<1> QED BY <1>6, <1>7, Operated

\* In u, the node n is in the directory dest under a name, and the others are as in t.
Put(t, u, n, dest, name) ==
  /\ DOMAIN u = DOMAIN t /\ Stay(t, u, DOMAIN t \ {n})
  /\ u[n].name = name /\ u[n].parent = dest
  /\ EntryOf(u[n]) = EntryOf(t[n])

\* vfs_warp renames a node and puts it into another directory, and no other node.
LEMMA MovedFields ==
  ASSUME NEW t, NEW d, Good(t, d), NEW n \in DOMAIN t \ {Root}, NEW dest \in DOMAIN t,
         NEW name \in Seq(Chars)
  PROVE  Put(t, Moved(t, n, dest, name), n, dest, name)
<1> DEFINE D == DOMAIN t
           u == Unlinked(t, n)
           r == u[n]
           s == [r EXCEPT !.name = name]
           v == [u EXCEPT ![n] = s]
           w == Linked(v, n, dest)
<1>1. D \in SUBSET Int /\ t \in [D -> NodeRecord] /\ n \in D /\ dest \in D
      /\ t[n].parent \in D /\ IsInjective(t[t[n].parent].children)
      /\ Contains(t[t[n].parent].children, n)
  BY BoundsAssumption DEF Good, Typed, ParentKnows, ListedOnce
<1> HIDE DEF D
<1>2. /\ u \in [D -> NodeRecord]
      /\ \A m \in D : Same(u[m], t[m]) /\ u[m].parent = t[m].parent
  <2>1. /\ u \in [D -> NodeRecord]
        /\ \A m \in D :
             /\ Same(u[m], t[m]) /\ u[m].parent = t[m].parent
             /\ m # t[n].parent => u[m].children = t[m].children
        /\ IsInjective(u[t[n].parent].children)
        /\ \A c : Contains(u[t[n].parent].children, c) <=>
                    Contains(t[t[n].parent].children, c) /\ c # n
    BY <1>1, UnlinkedIs
  <2> QED BY <2>1
<1> HIDE DEF u
<1>3. r \in NodeRecord
  BY <1>1, <1>2
<1> HIDE DEF r
<1>4. s \in NodeRecord /\ s.name = name /\ s.type = r.type /\ s.text = r.text
      /\ s.learned = r.learned
  BY <1>3 DEF NodeRecord
<1> HIDE DEF s
<1>5. v \in [D -> NodeRecord] /\ v[n] = s /\ \A m \in D \ {n} : v[m] = u[m]
  BY <1>1, <1>2, <1>4
<1>6. Moved(t, n, dest, name) = w
  BY DEF Moved, u, v, s, r
<1> HIDE DEF v
<1>7. /\ \A m \in D : Same(w[m], v[m])
      /\ \A m \in D \ {n} : w[m].parent = v[m].parent
      /\ w[n].parent = dest
      /\ DOMAIN w = D
  <2>1. LinkedTo(v, w, D, n, dest)
    BY <1>1, <1>5, LinkedMoves
  <2> HIDE DEF w
  <2> QED BY <2>1 DEF LinkedTo
<1> HIDE DEF w
<1>8. Stay(t, w, D \ {n})
  BY <1>2, <1>5, <1>7 DEF Stay, Same
<1>9. w[n].name = name /\ w[n].type = t[n].type /\ w[n].text = t[n].text
      /\ w[n].learned = t[n].learned
  BY <1>1, <1>2, <1>4, <1>5, <1>7 DEF Same, r
<1>10. EntryOf(w[n]) = EntryOf(t[n])
  BY <1>9 DEF EntryOf
<1> QED BY <1>6, <1>7, <1>8, <1>9, <1>10 DEF D, Put

\* w is the tree without x, if vfs_warp replaces x, or else the tree.
Cleared(w, X, dest, name) ==
  \/ w = tree /\ X = {}
  \/ \E x \in Nodes \ {Root} :
       /\ X = {x} /\ w = Freeing(Unlinked(tree, x), {x}) /\ tree[x].children = <<>>
       /\ tree[x].parent = dest /\ tree[x].name = name

\* What vfs_warp moves may be moved, and to where.
LEMMA WarpIsMove ==
  ASSUME NEW d, NEW e, StepOf(d, e), NEW src, NEW dest, Movable(d, src, dest),
         NEW name \in Seq(Chars), NEW w, NEW X, Cleared(w, X, dest, name), src \notin X,
         tree' = Moved(w, src, dest, name)
  PROVE  MoveOf(tree, tree', Subtree(src), src, dest, name, X)
<1> DEFINE S == Subtree(src)
           f == PathsOf(tree)
<1>1. Good(tree, d) /\ Good(tree', e) /\ Nodes = DOMAIN tree /\ Root \in DOMAIN tree
  BY DEF StepOf, Nodes, Good, Typed
<1>2. /\ src \in DOMAIN tree \ {Root} /\ dest \in DOMAIN tree \ S
      /\ Under(tree, S, src)
  BY <1>1 DEF Movable, Closed, Under
<1>3. \A x \in X : /\ x \in DOMAIN tree \ {Root} /\ tree[x].children = <<>>
                   /\ tree[x].parent = dest /\ tree[x].name = name
  BY <1>1 DEF Cleared
<1>4. (\E g : Good(w, g)) /\ DOMAIN w = DOMAIN tree \ X /\ Stay(tree, w, DOMAIN w)
  <2>1. CASE w = tree /\ X = {}
    <3>1. Good(w, d) /\ DOMAIN w = DOMAIN tree \ X
      BY <1>1, <2>1
    <3>2. Stay(tree, w, DOMAIN w)
      BY <2>1 DEF Stay, Same
    <3> QED BY <3>1, <3>2
  <2>2. CASE \E x \in Nodes \ {Root} : X = {x} /\ w = Freeing(Unlinked(tree, x), {x})
    <3>1. PICK x \in Nodes \ {Root} : X = {x} /\ w = Freeing(Unlinked(tree, x), {x})
      BY <2>2
    <3>2. x \in DOMAIN tree \ {Root} /\ tree[x].children = <<>>
      BY <1>1, <1>3, <3>1
    <3> DEFINE v == Freeing(Unlinked(tree, x), {x})
    <3>3. /\ \E g : /\ Good(v, g)
                    /\ \A m \in DOMAIN tree \ {x} : g[m] = d[m]
          /\ DOMAIN v = DOMAIN tree \ {x}
          /\ \A m \in DOMAIN tree \ {x} : Same(v[m], tree[m]) /\ v[m].parent = tree[m].parent
      BY <1>1, <3>2, DeletedKeeps
    <3> HIDE DEF v
    <3>4. w = v
      BY <3>1 DEF v
    <3> QED BY <3>1, <3>3, <3>4 DEF Stay
  <2> QED BY <2>1, <2>2 DEF Cleared
<1>5. PICK g : Good(w, g)
  BY <1>4
<1>6. X \subseteq DOMAIN tree \ S /\ dest \notin X
  <2>1. ASSUME NEW x \in X PROVE x \notin S
    <3>1. x \in DOMAIN tree \ {Root, src} /\ tree[x].parent \notin S
      BY <1>2, <1>3
    <3> QED BY <1>2, <3>1 DEF Under
  <2>2. ASSUME dest \in X PROVE FALSE
    <3>1. dest \in DOMAIN tree \ {Root} /\ tree[dest].parent = dest
      BY <1>3, <2>2
    <3>2. d[dest] = d[dest] + 1 /\ d[dest] \in Nat
      BY <1>1, <3>1, ParentIs
    <3> QED BY <3>2
  <2> QED BY <1>3, <2>1, <2>2
<1>7. src \in DOMAIN w \ {Root} /\ dest \in DOMAIN w
  BY <1>2, <1>4, <1>6
<1>8. /\ DOMAIN tree' = DOMAIN w /\ Stay(w, tree', DOMAIN w \ {src})
      /\ tree'[src].name = name /\ tree'[src].parent = dest
      /\ EntryOf(tree'[src]) = EntryOf(w[src])
  <2>1. Put(w, Moved(w, src, dest, name), src, dest, name)
    BY <1>5, <1>7, MovedFields
  <2> QED BY <2>1 DEF Put
<1>9. EntryOf(w[src]) = EntryOf(tree[src])
  BY <1>4, <1>7 DEF Stay, Same, EntryOf
<1>10. Stay(tree, tree', DOMAIN tree' \ {src})
  BY <1>4, <1>8 DEF Stay, Same
<1>11. ASSUME NEW x \in X PROVE f[x] = Append(f[dest], name)
  <2>1. Spelled(tree, f)
    BY <1>1, PathsExist
  <2>2. x \in DOMAIN tree \ {Root} /\ tree[x].parent = dest /\ tree[x].name = name
    BY <1>3
  <2>3. f[x] = Append(f[tree[x].parent], tree[x].name)
    BY <1>1, <2>1, <2>2, PathIs
  <2> QED BY <2>2, <2>3
<1> HIDE DEF S, f
<1>12. MoveOf(tree, tree', S, src, dest, name, X)
  BY <1>2, <1>3, <1>4, <1>6, <1>7, <1>8, <1>9, <1>10, <1>11 DEF MoveOf, f
<1> QED BY <1>12 DEF S

\* vfs_warp moves paths.
LEMMA WarpPath ==
  ASSUME NEW d, NEW e, StepOf(d, e), NEW src, NEW dest, Movable(d, src, dest),
         NEW name \in Seq(Chars), NEW w, NEW X, Cleared(w, X, dest, name), src \notin X,
         tree' = Moved(w, src, dest, name), UNCHANGED cwd
  PROVE  N!Next \/ UNCHANGED N!vars
<1> DEFINE S == Subtree(src)
<1>1. /\ Good(tree, d) /\ Good(tree', e) /\ cwd \in DOMAIN tree /\ cwd \in DOMAIN tree'
  BY DEF StepOf
<1>2. MoveOf(tree, tree', S, src, dest, name, X)
  BY WarpIsMove
<1>3. cwd \notin S
  <2>1. src \in DOMAIN tree \ {Root} /\ tree[src].parent = cwd
        /\ \A m \in S : d[src] <= d[m]
    BY DEF Movable, Nodes
  <2>2. d[src] = d[cwd] + 1 /\ d[cwd] \in Nat
    BY <1>1, <2>1, ParentIs
  <2>3. ~(d[src] <= d[cwd])
    BY <2>2
  <2> QED BY <2>1, <2>3
<1> HIDE DEF S
<1>4. PlaceStays
  <2>1. cwd \in DOMAIN tree' \ S
    BY <1>1, <1>3
  <2>2. \A m \in DOMAIN tree' \ S : PathsOf(tree')[m] = PathsOf(tree)[m]
    BY <1>1, <1>2, MovedPaths
  <2> QED BY <2>1, <2>2 DEF PlaceStays
<1>5. CASE PathsOf(tree)[src] = PathsOf(tree')[src]
  <2>1. EntriesOf(tree') = EntriesOf(tree)
    BY <1>1, <1>2, <1>5, MovedNowhere
  <2> QED BY <1>4, <2>1, NothingChanged
<1>6. CASE PathsOf(tree)[src] # PathsOf(tree')[src]
  <2>1. cwd \in DOMAIN tree \ S /\ PathOf[cwd] = PathsOf(tree)[cwd]
    BY <1>1, <1>3, PathsAre
  <2>2. N!Moved(EntriesOf(tree), EntriesOf(tree'))
    BY <1>1, <1>2, <1>6, <2>1, MovedEntries
  <2> QED BY <1>4, <2>2, Operated
<1> QED BY <1>5, <1>6

\* vfs_warp moves paths or leaves them, with every answer.
LEMMA WarpSteps ==
  ASSUME NEW d, NEW e, StepOf(d, e), IInv, PlainNames, NEW name \in Names,
         NEW path \in Targets, WarpKeeps(name, path), UNCHANGED cwd
  PROVE  N!Next \/ UNCHANGED N!vars
<1> DEFINE src == Find(cwd, Cut(name))
           dest == Resolve(path)
<1>1. Good(tree, d) /\ Good(tree', e) /\ Nodes = DOMAIN tree
  BY DEF StepOf, Nodes
<1>2. CanWarp(name, path)
  BY DEF WarpKeeps, WarpPlain, WarpOver, WarpRename
<1>3. Movable(d, src, dest)
  BY <1>1, <1>2, WarpMoves
<1>4. Cut(name) = name /\ name \in Seq(Chars)
  BY NamesPlain
<1>5. dest \in Nodes
  BY <1>3 DEF Movable
<1>6. Cleared(tree, {}, dest, name)
  BY DEF Cleared
<1> HIDE DEF dest, src
<1>7. CASE WarpPlain(name, path)
  <2>1. tree' = Moved(tree, src, dest, name)
    BY <1>4, <1>7 DEF WarpPlain, src, dest
  <2>2. src \notin {}
    OBVIOUS
  <2> QED BY <1>3, <1>4, <1>6, <2>1, <2>2, WarpPath
<1>8. CASE WarpOver(name, path)
  <2> DEFINE x == Existing(name, path)
             w == Freeing(Unlinked(tree, x), Subtree(x))
  <2>1. Find(dest, name) # None =>
          /\ Find(dest, name) \in Nodes \ {Root}
          /\ tree[Find(dest, name)].parent = dest
          /\ tree[Find(dest, name)].name = name
    BY <1>1, <1>5, FindIs
  <2>2. x = IF Find(dest, name) = src THEN None ELSE Find(dest, name)
    BY <1>4 DEF Existing, src, dest
  <2>3. x # None /\ Replaces(x)
    BY <1>8 DEF WarpOver
  <2>4. IF src \in Subtree(x) THEN UNCHANGED tree ELSE tree' = Moved(w, src, dest, name)
    BY <1>4, <1>8 DEF WarpOver, src, dest
  <2> HIDE DEF x
  <2>5. /\ x \in Nodes \ {Root} /\ x # src /\ tree[x].parent = dest /\ tree[x].name = name
    BY <2>1, <2>2, <2>3
  <2>6. tree[x].children = <<>>
    BY <1>1, <2>3, <2>5 DEF Replaces, Good, Typed, NodeRecord, GoodNode, IsDir
  <2>7. Subtree(x) = {x}
    BY <1>1, <2>5, <2>6, NoChild
  <2>8. Cleared(w, {x}, dest, name) /\ src \notin {x} /\ tree' = Moved(w, src, dest, name)
    BY <2>4, <2>5, <2>6, <2>7 DEF Cleared
  <2> HIDE DEF w
  <2> QED BY <1>3, <1>4, <2>8, WarpPath
<1>9. CASE WarpRename(name, path)
  <2> DEFINE free == FreeNumbers(dest, name)
             i == Min(free)
             new == Renamed(name, i)
  <2>1. CASE free # {}
    <3>1. i \in free
      <4>1. free \in SUBSET Nat
        BY DEF FreeNumbers
      <4> HIDE DEF free
      <4> QED BY <2>1, <4>1, MinIs
    <3>2. tree' = Moved(tree, src, dest, new)
      BY <1>4, <1>9, <2>1 DEF WarpRename, src, dest
    <3>3. i \in 1..MaxNodes
      <4> HIDE DEF i
      <4> QED BY <3>1 DEF FreeNumbers
    <3> HIDE DEF i
    <3>4. new \in Seq(Chars)
      BY <1>4, <3>3, RenamedIs
    <3> HIDE DEF new
    <3>5. Cleared(tree, {}, dest, new) /\ src \notin {}
      BY DEF Cleared
    <3> QED BY <1>3, <3>2, <3>4, <3>5, WarpPath
  <2>2. CASE free = {}
    <3>1. UNCHANGED tree
      BY <1>4, <1>9, <2>2 DEF WarpRename, dest
    <3>2. PlaceStays /\ EntriesOf(tree') = EntriesOf(tree)
      BY <3>1 DEF PlaceStays
    <3> QED BY <3>2, NothingChanged
  <2> QED BY <2>1, <2>2
<1> QED BY <1>7, <1>8, <1>9 DEF WarpKeeps

\* vfs_init makes the root, and base in a directory of it.
LEMMA FirstPathsAre ==
  /\ EntriesOf(FirstTree) = [p \in FirstPaths |-> [type |-> "dir"]]
  /\ PathsOf(FirstTree)[2] = <<RootDirName, BaseName>>
<1> DEFINE t == FirstTree
           f == PathsOf(t)
<1>1. PICK d : Good(t, d)
  BY FirstKept
<1> HIDE DEF t
<1>2. DOMAIN t = 0..2
  BY DEF t, FirstTree
<1>3. /\ t[0].type = "dir" /\ t[1].type = "dir" /\ t[2].type = "dir"
      /\ t[1].parent = 0 /\ t[2].parent = 1
      /\ t[1].name = RootDirName /\ t[2].name = BaseName
  BY DEF t, FirstTree, NewNode
<1>4. Spelled(t, f)
  BY <1>1, PathsExist
<1> HIDE DEF f
<1>5. /\ f[0] = <<>> /\ f[1] = Append(f[0], RootDirName) /\ f[2] = Append(f[1], BaseName)
  BY <1>1, <1>2, <1>3, <1>4, PathIs DEF Root
<1>6. f[1] = <<RootDirName>> /\ f[2] = <<RootDirName, BaseName>>
  <2>1. \A a \in {RootDirName, BaseName} : Append(<<>>, a) = <<a>>
    OBVIOUS
  <2>2. \A a, b \in {RootDirName, BaseName} : Append(<<a>>, b) = <<a, b>>
    <3> TAKE a, b \in {RootDirName, BaseName}
    <3> DEFINE S == {a, b}
               u == Append(<<a>>, b)
               v == <<a, b>>
    <3>1. u \in Seq(S) /\ Len(u) = 2 /\ u[1] = a /\ u[2] = b
      OBVIOUS
    <3>2. v \in Seq(S) /\ Len(v) = 2 /\ v[1] = a /\ v[2] = b
      OBVIOUS
    <3> HIDE DEF u, v
    <3>3. \A i \in 1..2 : i = 1 \/ i = 2
      OBVIOUS
    <3>4. \A i \in 1..Len(u) : u[i] = v[i]
      BY <3>1, <3>2, <3>3
    <3>5. u = v
      BY <3>1, <3>2, <3>4, SeqEqual
    <3> QED BY <3>5 DEF u, v
  <2> QED BY <1>5, <2>1, <2>2
<1>7. /\ DOMAIN EntriesOf(t) = {f[n] : n \in DOMAIN t}
      /\ EntriesOf(t) = [p \in DOMAIN EntriesOf(t) |-> EntriesOf(t)[p]]
      /\ \A n \in DOMAIN t : EntriesOf(t)[f[n]] = EntryOf(t[n])
  BY <1>1, EntriesAt DEF f
<1>8. \A n \in 0..2 : EntryOf(t[n]) = [type |-> "dir"]
  <2>1. \A n \in 0..2 : n = 0 \/ n = 1 \/ n = 2
    OBVIOUS
  <2>2. \A n \in 0..2 : t[n].type = "dir"
    BY <1>3, <2>1
  <2> QED BY <2>2 DEF EntryOf
<1>9. {f[n] : n \in 0..2} = FirstPaths
  <2>1. 0..2 = {0, 1, 2}
    OBVIOUS
  <2>2. {f[n] : n \in {0, 1, 2}} = {f[0], f[1], f[2]}
    OBVIOUS
  <2> QED BY <1>5, <1>6, <2>1, <2>2 DEF FirstPaths
<1>10. \A p \in FirstPaths : EntriesOf(t)[p] = [type |-> "dir"]
  <2> TAKE p \in FirstPaths
  <2>1. PICK n \in 0..2 : p = f[n]
    BY <1>9
  <2> QED BY <1>2, <1>7, <1>8, <2>1
<1>11. EntriesOf(t) = [p \in FirstPaths |-> [type |-> "dir"]]
  BY <1>2, <1>7, <1>9, <1>10
<1> QED BY <1>6, <1>11 DEF f, t

\* The commands are steps of the paths.
LEMMA CommandSteps ==
  ASSUME NEW d, NEW e, StepOf(d, e), IInv, PlainNames, NEW name \in Names, Command(name)
  PROVE  N!Next \/ UNCHANGED N!vars
<1>1. Good(tree, d) /\ Good(tree', e) /\ cwd \in Nodes
  BY DEF StepOf, Nodes
<1>2. UNCHANGED cwd
  BY DEF Command, Mkdir, Fab, Carve, Learn, Burn, Cast
<1>3. CASE Mkdir(name)
  <2>1. Added("dir", name)
    BY <1>3 DEF Mkdir
  <2> QED BY <1>2, <2>1, AddedPath
<1>4. CASE Fab(name)
  <2>1. Added("file", name)
    BY <1>4 DEF Fab
  <2> QED BY <1>2, <2>1, AddedPath
<1> DEFINE n == FileAt(name)
<1>5. n # None => n \in Nodes /\ ~IsDir(n)
  BY <1>1, FileAtIs
<1>6. CASE Carve(name)
  <2>1. n # None /\ Carved(n, "carved")
    BY <1>6 DEF Carve
  <2> HIDE DEF n
  <2> QED BY <1>2, <1>5, <2>1, CarvedPath
<1>7. CASE Learn(name)
  <2>1. n # None /\ tree' = [tree EXCEPT ![n].learned = TRUE]
    BY <1>7 DEF Learn
  <2> HIDE DEF n
  <2> QED BY <1>2, <1>5, <2>1, LearnedPath
<1>8. CASE Burn(name)
  <2> DEFINE m == Find(cwd, name)
  <2>1. /\ m # None /\ (IsDir(m) => tree[m].children = <<>>)
        /\ tree' = Freeing(Unlinked(tree, m), Subtree(m))
    BY <1>8 DEF Burn
  <2>2. m \in Nodes \ {Root}
    BY <1>1, <2>1, FindIs
  <2> HIDE DEF m
  <2>3. tree[m].children = <<>>
    BY <1>1, <2>1, <2>2 DEF Good, Typed, NodeRecord, GoodNode, IsDir, Nodes
  <2> QED BY <1>2, <2>1, <2>2, <2>3, BurntPath
<1>9. CASE Cast(name)
  <2>1. UNCHANGED tree
    BY <1>9 DEF Cast
  <2>2. PlaceStays /\ EntriesOf(tree') = EntriesOf(tree)
    BY <1>2, <2>1 DEF PlaceStays
  <2> QED BY <2>2, NothingChanged
<1> QED BY <1>3, <1>4, <1>6, <1>7, <1>8, <1>9 DEF Command

\* Every step is a step of the paths, or leaves them.
LEMMA StepImplements ==
  ASSUME IInv, IInv', PlainNames, [Next]_vars
  PROVE  N!Next \/ UNCHANGED N!vars
<1>1. PICK d, e : Good(tree, d) /\ Good(tree', e)
  BY DEF IInv
<1>2. StepOf(d, e)
  BY <1>1 DEF StepOf, IInv, RestInv, IsDir, Nodes
<1>3. ASSUME UNCHANGED <<tree, cwd>> PROVE UNCHANGED N!vars
  <2>1. PlaceStays /\ EntriesOf(tree') = EntriesOf(tree)
    BY <1>3 DEF PlaceStays
  <2> QED BY <2>1, NothingChanged
<1>4. CASE UNCHANGED vars
  BY <1>3, <1>4 DEF vars
<1>5. ASSUME NEW name \in Names, Command(name) PROVE N!Next \/ UNCHANGED N!vars
  BY <1>2, <1>5, CommandSteps
<1>6. ASSUME NEW name \in Names, EditorOpens(name) PROVE N!Next \/ UNCHANGED N!vars
  <2>1. UNCHANGED cwd /\ (UNCHANGED tree \/ Added("file", name))
    BY <1>6 DEF EditorOpens
  <2>2. CASE UNCHANGED tree
    BY <1>3, <2>1, <2>2
  <2>3. CASE Added("file", name)
    BY <1>2, <2>1, <2>3, AddedPath
  <2> QED BY <2>1, <2>2, <2>3
<1>7. ASSUME UNCHANGED tree PROVE N!Next
  <2> DEFINE was == EntriesOf(tree)
             p == PathsOf(tree)[cwd']
  <2>1. cwd' \in DOMAIN tree /\ tree[cwd'].type = "dir"
    BY <1>2, <1>7 DEF StepOf
  <2>2. p \in DOMAIN was /\ was[p] = EntryOf(tree[cwd'])
    BY <1>1, <2>1, EntriesAt
  <2>3. was[p].type = "dir"
    BY <1>1, <2>1, <2>2, EntryType
  <2>4. Entries = was /\ Entries' = was
    BY <1>7, EntriesAre
  <2>5. (PathOf[cwd])' = p
    BY <1>7, PathsAre
  <2> HIDE DEF was, p
  <2>6. N!ChangePlace
    BY <2>2, <2>3, <2>4, <2>5 DEF N!ChangePlace
  <2> QED BY <2>6 DEF N!Next
<1>8. ASSUME NEW path \in Targets, Cd(path) PROVE N!Next
  BY <1>7, <1>8 DEF Cd
<1>9. ASSUME NEW name \in Names, NEW path \in Targets, Warp(name, path)
      PROVE  N!Next \/ UNCHANGED N!vars
  <2>1. UNCHANGED cwd /\ (WarpPlain(name, path) \/ UNCHANGED tree)
    BY <1>9 DEF Warp
  <2>2. CASE WarpPlain(name, path)
    BY <1>2, <2>1, <2>2, WarpSteps DEF WarpKeeps
  <2> QED BY <1>3, <2>1, <2>2
<1>10. CASE WarpAnswered
  <2> DEFINE name == asked[1]
             path == asked[2]
  <2>1. name \in Names /\ path \in Targets
    BY <1>10 DEF WarpAnswered, IInv, RestInv
  <2>2. UNCHANGED cwd /\ (WarpKeeps(name, path) \/ UNCHANGED tree)
    BY <1>10 DEF WarpAnswered, WarpKeeps
  <2> HIDE DEF name, path
  <2>3. CASE WarpKeeps(name, path)
    BY <1>2, <2>1, <2>2, <2>3, WarpSteps
  <2> QED BY <1>3, <2>2, <2>3
<1>11. CASE CastEnds \/ EditorCloses
  BY <1>3, <1>11 DEF CastEnds, EditorCloses
<1>12. CASE EditorSaves
  <2> DEFINE n == FileAt(editor.name)
  <2>1. n # None /\ Carved(n, "edited") /\ UNCHANGED cwd
    BY <1>12 DEF EditorSaves
  <2>2. n \in Nodes /\ ~IsDir(n)
    <3>1. cwd \in Nodes
      BY DEF IInv, RestInv
    <3> QED BY <1>1, <2>1, <3>1, FileAtIs
  <2> HIDE DEF n
  <2> QED BY <1>2, <2>1, <2>2, CarvedPath
<1>13. CASE Format
  <2>1. tree' = FirstTree /\ cwd' = 2
    BY <1>13 DEF Format
  <2>2. Entries' = [p \in FirstPaths |-> [type |-> "dir"]]
    BY <2>1, EntriesAre, FirstPathsAre
  <2>3. (PathOf[cwd])' = <<RootDirName, BaseName>>
    BY <2>1, PathsAre, FirstPathsAre
  <2>4. N!Renew
    BY <2>2, <2>3 DEF N!Renew
  <2> QED BY <2>4 DEF N!Next
<1>14. CASE Restart
  BY <1>7, <1>14 DEF Restart
<1> QED BY <1>4, <1>5, <1>6, <1>8, <1>9, <1>10, <1>11, <1>12, <1>13, <1>14 DEF Next

\* The tree implements the paths of Namespace, if the names typed are plain: every command,
\* with every answer to a name conflict, of the shell, of a script or of an editor, and
\* every restart, creates, changes, deletes or moves the paths it is about, a directory with
\* all that is in it, and no others (vfs_mkdir, vfs_fab, vfs_carve, vfs_burn, vfs_warp).
THEOREM TreeImplementsNamespace == ASSUME PlainNames PROVE Spec => ImplementsNamespace
<1>1. Init => IInv
  BY FirstInv
<1>2. IInv /\ [Next]_vars => IInv'
  BY StepKeeps
<1>3. Init => N!Init
  <2> SUFFICES ASSUME Init PROVE N!Init
    OBVIOUS
  <2>1. tree = FirstTree /\ cwd = 2
    BY DEF Init
  <2>2. Entries = [p \in FirstPaths |-> [type |-> "dir"]]
    BY <2>1, EntriesAre, FirstPathsAre
  <2>3. PathOf[cwd] = <<RootDirName, BaseName>>
    BY <2>1, PathsAre, FirstPathsAre
  <2> QED BY <2>2, <2>3 DEF N!Init
<1>4. IInv /\ IInv' /\ [Next]_vars => [N!Next]_(N!vars)
  BY StepImplements
<1> QED BY <1>1, <1>2, <1>3, <1>4, PTL DEF Spec, ImplementsNamespace, N!Spec
=============================================================================
