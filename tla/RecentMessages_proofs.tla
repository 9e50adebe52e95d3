-------------------------- MODULE RecentMessages_proofs --------------------------
(***************************************************************************)
(* Lemmas about the operators of RecentMessages (cleanup, the stores and   *)
(* removals of insert, and the results insert can leave), for every       *)
(* capacity and TTL.  Gossip_proofs and Broadcast_proofs cite them for the *)
(* two owners of a RecentMessages.                                         *)
(***************************************************************************)
EXTENDS RecentMessages, FiniteSetTheorems, TLAPS

\* cleanup only removes entries, and keeps the instants of the others.
LEMMA CleanupFacts ==
    ASSUME NEW s, IsFiniteSet(DOMAIN s), NEW t
    PROVE  LET c == Cleanup(s, t)
           IN  /\ DOMAIN c \subseteq DOMAIN s
               /\ IsFiniteSet(DOMAIN c)
               /\ Cardinality(DOMAIN c) <= Cardinality(DOMAIN s)
               /\ \A k \in DOMAIN c : c[k] = s[k]
<1>1. DOMAIN Cleanup(s, t) \subseteq DOMAIN s
  BY DEF Cleanup
<1>. QED
  BY <1>1, FS_Subset DEF Cleanup

\* Storing a hash adds at most one key.
LEMMA WithFacts ==
    ASSUME NEW s, IsFiniteSet(DOMAIN s), NEW h, NEW t
    PROVE  /\ DOMAIN With(s, h, t) = DOMAIN s \cup {h}
           /\ IsFiniteSet(DOMAIN With(s, h, t))
           /\ Cardinality(DOMAIN With(s, h, t)) <= Cardinality(DOMAIN s) + 1
           /\ Cardinality(DOMAIN With(s, h, t)) \in Nat
<1>1. DOMAIN With(s, h, t) = DOMAIN s \cup {h}
  BY DEF With
<1>2. Cardinality(DOMAIN s) \in Nat
  BY FS_CardinalityType
<1>3. /\ IsFiniteSet(DOMAIN s \cup {h})
      /\ Cardinality(DOMAIN s \cup {h}) <= Cardinality(DOMAIN s) + 1
  BY <1>2, FS_AddElement
<1>4. Cardinality(DOMAIN s \cup {h}) \in Nat
  BY <1>3, FS_CardinalityType
<1>. QED
  BY <1>1, <1>3, <1>4

\* Removing an entry removes one key.
LEMMA WithoutFacts ==
    ASSUME NEW s, IsFiniteSet(DOMAIN s), NEW o \in DOMAIN s
    PROVE  /\ DOMAIN Without(s, o) = DOMAIN s \ {o}
           /\ IsFiniteSet(DOMAIN Without(s, o))
           /\ Cardinality(DOMAIN Without(s, o)) = Cardinality(DOMAIN s) - 1
           /\ Cardinality(DOMAIN Without(s, o)) \in Nat
<1>1. DOMAIN Without(s, o) = DOMAIN s \ {o}
  BY DEF Without
<1>2. IsFiniteSet(DOMAIN s \ {o})
      /\ Cardinality(DOMAIN s \ {o}) = Cardinality(DOMAIN s) - 1
  BY FS_RemoveElement
<1>3. Cardinality(DOMAIN s \ {o}) \in Nat
  BY <1>2, FS_CardinalityType
<1>. QED
  BY <1>1, <1>2, <1>3

\* Every entry insert leaves is one of the set's, with its instant, or the
\* new hash at the given instant.
LEMMA InsertValues ==
    ASSUME NEW s, NEW h, NEW t, NEW r \in InsertResults(s, h, t)
    PROVE  /\ DOMAIN r \subseteq DOMAIN s \cup {h}
           /\ \A k \in DOMAIN r : r[k] = t \/ (k \in DOMAIN s /\ r[k] = s[k])
<1>1. CASE r = With(s, h, t)
  BY <1>1 DEF With
<1>2. CASE r = With(Cleanup(s, t), h, t)
  BY <1>2 DEF With, Cleanup
<1>3. ASSUME NEW o \in DOMAIN Cleanup(s, t),
             r = With(Without(Cleanup(s, t), o), h, t)
      PROVE  /\ DOMAIN r \subseteq DOMAIN s \cup {h}
             /\ \A k \in DOMAIN r : r[k] = t \/ (k \in DOMAIN s /\ r[k] = s[k])
  BY <1>3 DEF With, Without, Cleanup
<1>. QED
  BY <1>1, <1>2, <1>3 DEF InsertResults, Oldest

\* insert keeps a set within its capacity.
LEMMA InsertBound ==
    ASSUME NEW s, IsFiniteSet(DOMAIN s), Cardinality(DOMAIN s) <= Capacity,
           NEW h, NEW t, NEW r \in InsertResults(s, h, t)
    PROVE  /\ IsFiniteSet(DOMAIN r)
           /\ Cardinality(DOMAIN r) <= Capacity
<1>0. Capacity \in Nat \ {0} /\ Cardinality(DOMAIN s) \in Nat
  BY RecentMessagesAssumption, FS_CardinalityType
<1>1. CASE Cardinality(DOMAIN s) < Capacity
  <2>1. r = With(s, h, t)
    BY <1>0, <1>1 DEF InsertResults
  <2>2. /\ IsFiniteSet(DOMAIN With(s, h, t))
        /\ Cardinality(DOMAIN With(s, h, t)) <= Cardinality(DOMAIN s) + 1
        /\ Cardinality(DOMAIN With(s, h, t)) \in Nat
    BY WithFacts
  <2>3. /\ IsFiniteSet(DOMAIN r)
        /\ Cardinality(DOMAIN r) = Cardinality(DOMAIN With(s, h, t))
    BY <2>1, <2>2, Zenon
  <2>. QED
    BY <1>0, <1>1, <2>2, <2>3
<1>2. CASE Cardinality(DOMAIN s) >= Capacity
  <2>0. PICK c : c = Cleanup(s, t)
    OBVIOUS
  <2>1. /\ IsFiniteSet(DOMAIN c)
        /\ Cardinality(DOMAIN c) <= Cardinality(DOMAIN s)
    BY <2>0, CleanupFacts
  <2>2. Cardinality(DOMAIN c) \in Nat
    BY <2>1, FS_CardinalityType
  <2>3. CASE Cardinality(DOMAIN c) >= Capacity /\ DOMAIN c # {}
    <3>1. PICK o \in Oldest(c) : r = With(Without(c, o), h, t)
      BY <1>2, <2>0, <2>3 DEF InsertResults
    <3>2. o \in DOMAIN c
      BY DEF Oldest
    <3>3. PICK w : w = Without(c, o)
      OBVIOUS
    <3>4. /\ IsFiniteSet(DOMAIN w)
          /\ Cardinality(DOMAIN w) = Cardinality(DOMAIN c) - 1
      BY <2>1, <3>2, <3>3, WithoutFacts
    <3>5. /\ IsFiniteSet(DOMAIN With(w, h, t))
          /\ Cardinality(DOMAIN With(w, h, t)) <= Cardinality(DOMAIN w) + 1
          /\ Cardinality(DOMAIN With(w, h, t)) \in Nat
      BY <3>4, WithFacts
    <3>6. /\ IsFiniteSet(DOMAIN r)
          /\ Cardinality(DOMAIN r) = Cardinality(DOMAIN With(w, h, t))
      BY <3>1, <3>3, <3>5, Zenon
    <3>. QED
      BY <1>0, <2>1, <2>2, <2>3, <3>4, <3>5, <3>6
  <2>4. CASE ~(Cardinality(DOMAIN c) >= Capacity /\ DOMAIN c # {})
    <3>1. r = With(c, h, t)
      BY <1>2, <2>0, <2>4 DEF InsertResults
    <3>2. Cardinality(DOMAIN c) < Capacity
      BY <1>0, <2>1, <2>2, <2>4, FS_EmptySet
    <3>3. /\ IsFiniteSet(DOMAIN With(c, h, t))
          /\ Cardinality(DOMAIN With(c, h, t)) <= Cardinality(DOMAIN c) + 1
          /\ Cardinality(DOMAIN With(c, h, t)) \in Nat
      BY <2>1, WithFacts
    <3>4. /\ IsFiniteSet(DOMAIN r)
          /\ Cardinality(DOMAIN r) = Cardinality(DOMAIN With(c, h, t))
      BY <3>1, <3>3, Zenon
    <3>. QED
      BY <1>0, <2>2, <3>2, <3>3, <3>4
  <2>. QED
    BY <2>3, <2>4
<1>. QED
  BY <1>0, <1>1, <1>2


\* cleanup at instant t keeps every entry stored at instant b or later,
\* with its instant, when b is less than the TTL before t.
LEMMA CleanupNewer ==
    ASSUME NEW s, NEW t \in Nat, NEW b \in Nat, t - b < Ttl,
           \A k \in DOMAIN s : s[k] \in Nat
    PROVE  /\ Newer(Cleanup(s, t), b) = Newer(s, b)
           /\ \A k \in Newer(s, b) : Cleanup(s, t)[k] = s[k]
<1>1. Ttl \in Nat
  BY RecentMessagesAssumption
<1>2. \A k \in DOMAIN s : s[k] >= b => t - s[k] < Ttl
  BY <1>1
<1>. QED
  BY <1>2 DEF Newer, Cleanup

\* Storing a new hash h at instant t >= b, over a set that keeps its other
\* entries, adds h to the entries stored at b or later.
LEMMA StoreNewer ==
    ASSUME NEW c, IsFiniteSet(DOMAIN c), \A k \in DOMAIN c : c[k] \in Nat,
           NEW g, DOMAIN g = DOMAIN c, \A k \in DOMAIN c : g[k] = c[k],
           NEW t \in Nat, NEW h, h \notin DOMAIN c, NEW b \in Nat, b <= t
    PROVE  /\ Newer(With(g, h, t), b) = Newer(c, b) \cup {h}
           /\ IsFiniteSet(Newer(c, b))
           /\ IsFiniteSet(Newer(With(g, h, t), b))
           /\ Cardinality(Newer(With(g, h, t), b)) = Cardinality(Newer(c, b)) + 1
           /\ Cardinality(Newer(c, b)) \in Nat
<1>1. Newer(With(g, h, t), b) = Newer(c, b) \cup {h}
  BY DEF Newer, With
<1>2. IsFiniteSet(Newer(c, b)) /\ h \notin Newer(c, b)
  BY FS_Subset DEF Newer
<1>3. Cardinality(Newer(c, b)) \in Nat
  BY <1>2, FS_CardinalityType
<1>4. /\ IsFiniteSet(Newer(c, b) \cup {h})
      /\ Cardinality(Newer(c, b) \cup {h}) = Cardinality(Newer(c, b)) + 1
  BY <1>2, FS_AddElement
<1>. QED
  BY <1>1, <1>2, <1>3, <1>4, Zenon

\* insert, called with a hash h the set does not hold over a set whose
\* entries are all live at instant t, stores h at t; it keeps at least as
\* many entries stored at b or later; and an entry stored at b or later is
\* evicted only from a set full of entries stored at b or later.
LEMMA InsertNewer ==
    ASSUME NEW c, IsFiniteSet(DOMAIN c), NEW t \in Nat,
           \A k \in DOMAIN c : c[k] \in Nat /\ t - c[k] < Ttl,
           NEW h, h \notin DOMAIN c, NEW r \in InsertResults(c, h, t),
           NEW b \in Nat, b <= t
    PROVE  /\ h \in DOMAIN r /\ r[h] = t
           /\ IsFiniteSet(Newer(c, b)) /\ IsFiniteSet(Newer(r, b))
           /\ Cardinality(Newer(c, b)) \in Nat
           /\ Cardinality(Newer(r, b)) >= Cardinality(Newer(c, b))
           /\ \A k \in DOMAIN c :
                 c[k] >= b =>
                   \/ k \in DOMAIN r /\ r[k] = c[k]
                   \/ Cardinality(Newer(r, b)) >= Capacity
<1>0. /\ Capacity \in Nat \ {0}
      /\ Cardinality(DOMAIN c) \in Nat
  BY RecentMessagesAssumption, FS_CardinalityType
<1>1. PICK cc : cc = Cleanup(c, t)
  OBVIOUS
<1>2. DOMAIN cc = DOMAIN c /\ \A k \in DOMAIN c : cc[k] = c[k]
  BY <1>1 DEF Cleanup
<1>3. ASSUME NEW g, DOMAIN g = DOMAIN c, \A k \in DOMAIN c : g[k] = c[k],
             r = With(g, h, t)
      PROVE  /\ h \in DOMAIN r /\ r[h] = t
             /\ IsFiniteSet(Newer(c, b)) /\ IsFiniteSet(Newer(r, b))
             /\ Cardinality(Newer(c, b)) \in Nat
             /\ Cardinality(Newer(r, b)) >= Cardinality(Newer(c, b))
             /\ \A k \in DOMAIN c :
                   c[k] >= b =>
                     \/ k \in DOMAIN r /\ r[k] = c[k]
                     \/ Cardinality(Newer(r, b)) >= Capacity
  <2>1. /\ IsFiniteSet(Newer(c, b))
        /\ IsFiniteSet(Newer(With(g, h, t), b))
        /\ Cardinality(Newer(With(g, h, t), b)) = Cardinality(Newer(c, b)) + 1
        /\ Cardinality(Newer(c, b)) \in Nat
    BY <1>3, StoreNewer
  <2>2. /\ IsFiniteSet(Newer(r, b))
        /\ Cardinality(Newer(r, b)) = Cardinality(Newer(c, b)) + 1
    BY <1>3, <2>1, Zenon
  <2>3. /\ h \in DOMAIN r /\ r[h] = t
        /\ \A k \in DOMAIN c : k \in DOMAIN r /\ r[k] = c[k]
    BY <1>3 DEF With
  <2>. QED
    BY <2>1, <2>2, <2>3
<1>4. CASE Cardinality(DOMAIN c) < Capacity
  <2>1. r = With(c, h, t)
    BY <1>0, <1>4 DEF InsertResults
  <2>. QED
    BY <1>3, <2>1
<1>5. CASE Cardinality(DOMAIN c) >= Capacity /\ ~(Cardinality(DOMAIN cc) >= Capacity /\ DOMAIN cc # {})
  <2>1. r = With(cc, h, t)
    BY <1>1, <1>5, Zenon DEF InsertResults
  <2>. QED
    BY <1>2, <1>3, <2>1
<1>6. CASE Cardinality(DOMAIN c) >= Capacity /\ Cardinality(DOMAIN cc) >= Capacity /\ DOMAIN cc # {}
  <2>1. PICK o \in Oldest(cc) : r = With(Without(cc, o), h, t)
    BY <1>1, <1>6, Zenon DEF InsertResults
  <2>2. o \in DOMAIN c /\ \A k \in DOMAIN c : c[o] <= c[k]
    BY <1>2 DEF Oldest
  <2>3. /\ IsFiniteSet(Newer(c, b)) /\ h \notin Newer(c, b)
        /\ Cardinality(Newer(c, b)) \in Nat
    BY FS_Subset, FS_CardinalityType DEF Newer
  <2>4. Newer(r, b) = (Newer(c, b) \ {o}) \cup {h}
    BY <1>2, <2>1 DEF Newer, With, Without
  <2>5. /\ IsFiniteSet(Newer(c, b) \ {o})
        /\ Cardinality(Newer(c, b) \ {o}) \in Nat
        /\ Cardinality(Newer(c, b) \ {o}) >= Cardinality(Newer(c, b)) - 1
    <3>1. CASE o \in Newer(c, b)
      <4>1. /\ IsFiniteSet(Newer(c, b) \ {o})
            /\ Cardinality(Newer(c, b) \ {o}) = Cardinality(Newer(c, b)) - 1
        BY <2>3, <3>1, FS_RemoveElement
      <4>. QED
        BY <2>3, <4>1, FS_CardinalityType
    <3>2. CASE o \notin Newer(c, b)
      <4>1. Newer(c, b) \ {o} = Newer(c, b)
        BY <3>2
      <4>. QED
        BY <2>3, <4>1
    <3>. QED
      BY <3>1, <3>2
  <2>6. h \notin Newer(c, b) \ {o}
    BY <2>3
  <2>7. /\ IsFiniteSet((Newer(c, b) \ {o}) \cup {h})
        /\ Cardinality((Newer(c, b) \ {o}) \cup {h}) = Cardinality(Newer(c, b) \ {o}) + 1
    BY <2>5, <2>6, FS_AddElement
  <2>8. /\ IsFiniteSet(Newer(r, b))
        /\ Cardinality(Newer(r, b)) = Cardinality(Newer(c, b) \ {o}) + 1
    BY <2>4, <2>7, Zenon
  <2>9. Cardinality(Newer(r, b)) >= Cardinality(Newer(c, b))
    BY <2>3, <2>5, <2>8
  <2>10. /\ h \in DOMAIN r /\ r[h] = t
         /\ \A k \in DOMAIN c \ {o} : k \in DOMAIN r /\ r[k] = c[k]
    BY <1>2, <2>1 DEF With, Without
  <2>11. c[o] >= b => Cardinality(Newer(r, b)) >= Capacity
    <3>1. HAVE c[o] >= b
    <3>2. Newer(c, b) = DOMAIN c
      BY <2>2, <3>1 DEF Newer
    <3>3. Cardinality(Newer(c, b)) >= Capacity
      BY <1>2, <1>6, <3>2
    <3>. QED
      BY <1>0, <2>3, <2>5, <2>8, <2>9, <3>3
  <2>. QED
    BY <2>3, <2>8, <2>9, <2>10, <2>11
<1>. QED
  BY <1>0, <1>4, <1>5, <1>6
=============================================================================
