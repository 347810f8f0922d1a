------------------------------- MODULE ChainProofs ------------------------------
(***************************************************************************)
(* What the operators of PhiExpr and Compaction return: lookups, histories *)
(* and ancestors of typed frames are typed, and compaction turns a history *)
(* into a history, in which calls and their results stay together.         *)
(***************************************************************************)
EXTENDS Compaction, SequenceLemmas

-------------------------------------------------------------------------------
(* Effects and deltas *)

\* The effects on a variable.
LEMMA EffectTypes == /\ Missing \in Effect /\ Removed \in Effect
                     /\ \A v \in Nat : Stored(v) \in Effect
                     /\ NoEffects \in [Keys -> Effect]
  BY DEF Effect, Missing, Removed, Stored, NoEffects

\* Composing deltas, storing and removing give deltas.
LEMMA DeltaTypes ==
  ASSUME NEW base \in Delta, NEW ms \in Seq(Message)
  PROVE  /\ EmptyDelta \in Delta
         /\ Messages(ms) \in Delta
         /\ \A v \in Nat, key \in Keys : StoreIn(base, key, v) \in Delta
         /\ \A key \in Keys : RemoveIn(base, key) \in Delta
         /\ \A next \in Delta : Then(base, next) \in Delta
<1>1. EmptyDelta \in Delta /\ Messages(ms) \in Delta
  BY EffectTypes DEF EmptyDelta, Messages, Delta
<1>2. ASSUME NEW e \in Effect, NEW key \in Keys PROVE [base EXCEPT !.effects[key] = e] \in Delta
  BY DEF Delta
<1>3. ASSUME NEW next \in Delta PROVE Then(base, next) \in Delta
  <2>1. base.history \o next.history \in Seq(Message)
    BY DEF Delta
  <2>2. [k \in Keys |-> IF Affects(next, k) THEN next.effects[k] ELSE base.effects[k]]
          \in [Keys -> Effect]
    BY DEF Delta
  <2> QED
    BY <2>1, <2>2 DEF Then, Delta
<1> QED
  BY <1>1, <1>2, <1>3, EffectTypes DEF StoreIn, RemoveIn

-------------------------------------------------------------------------------
(* Chains.  Nothing is assumed of the steps. *)

Chain(Steps) == Seq([step : Steps, delta : Delta])

\* Every frame of a chain is a frame, with typed fields.
LEMMA FrameOf ==
  ASSUME NEW Steps, NEW frames \in Chain(Steps)
  PROVE  /\ Len(frames) \in Nat
         /\ \A i \in 1 .. Len(frames) :
               /\ frames[i] = [step |-> frames[i].step, delta |-> frames[i].delta]
               /\ frames[i].step \in Steps
               /\ frames[i].delta \in Delta
<1> DEFINE F == [step : Steps, delta : Delta]
<1>1. frames \in Seq(F)
  BY DEF Chain
<1>2. \A f \in F : /\ f = [step |-> f.step, delta |-> f.delta]
                   /\ f.step \in Steps /\ f.delta \in Delta
  OBVIOUS
<1> HIDE DEF F
<1>3. Len(frames) \in Nat /\ \A i \in 1 .. Len(frames) : frames[i] \in F
  BY <1>1
<1> QED
  BY <1>2, <1>3

\* What a lookup finds is a value, never the mark of a removal.
LEMMA LookupType ==
  ASSUME NEW Steps, NEW frames \in Chain(Steps), NEW key \in Keys
  PROVE  Lookup(frames, key) \in Effect \ {Removed}
<1> DEFINE mentions == {i \in DOMAIN frames : Affects(frames[i].delta, key)}
           effect == frames[Max(mentions)].delta.effects[key]
<1>1. CASE mentions = {} \/ effect = Removed
  <2>1. Lookup(frames, key) = Missing
    BY <1>1 DEF Lookup
  <2> QED
    BY <2>1, EffectTypes DEF Missing, Removed
<1>2. CASE mentions # {} /\ effect # Removed
  <2>1. Lookup(frames, key) = effect
    BY <1>2 DEF Lookup
  <2>2. mentions \in SUBSET (0 .. Len(frames)) /\ mentions # {}
    BY <1>2 DEF Chain
  <2>3. Len(frames) \in Nat
    BY DEF Chain
  <2> HIDE DEF effect, mentions
  <2>4. Max(mentions) \in mentions
    BY <2>2, <2>3, MaxOf
  <2>5. frames[Max(mentions)].delta \in Delta
    <3>1. Max(mentions) \in 1 .. Len(frames)
      BY <2>4 DEF mentions, Chain
    <3> QED
      BY <3>1, FrameOf
  <2>6. effect \in Effect
    BY <2>5 DEF effect, Delta
  <2> QED
    BY <1>2, <2>1, <2>6
<1> QED
  BY <1>1, <1>2

\* A prefix of a chain is a chain with the same frames.
LEMMA PrefixOf ==
  ASSUME NEW S, NEW s \in Seq(S), NEW n \in 0 .. Len(s)
  PROVE  /\ SubSeq(s, 1, n) \in Seq(S)
         /\ Len(SubSeq(s, 1, n)) = n
         /\ \A i \in 1 .. n : SubSeq(s, 1, n)[i] = s[i]
  BY SubSeqProperties

\* The ancestor found is a chain that ends below the outermost frame.
LEMMA AncestorType ==
  ASSUME NEW Steps, NEW frames \in Chain(Steps), NEW kind
  PROVE  LET found == FindAncestor(frames, kind) IN
         \/ found = <<>>
         \/ \E i \in 1 .. Len(frames) - 1 :
               /\ found = SubSeq(frames, 1, i) /\ found \in Chain(Steps) /\ Len(found) = i
               /\ frames[i].step.kind = kind
<1> DEFINE found == {i \in 1 .. Len(frames) - 1 : frames[i].step.kind = kind}
<1>1. CASE found = {}
  BY <1>1 DEF FindAncestor
<1>2. CASE found # {}
  <2>1. FindAncestor(frames, kind) = SubSeq(frames, 1, Max(found))
    BY <1>2 DEF FindAncestor
  <2>2. found \in SUBSET (0 .. Len(frames)) /\ Len(frames) \in Nat
    BY DEF Chain
  <2>3. Max(found) \in found
    <3> HIDE DEF found
    <3> QED
      BY <1>2, <2>2, MaxOf
  <2> DEFINE m == Max(found)
  <2>4. m \in 1 .. Len(frames) - 1 /\ m \in 0 .. Len(frames) /\ frames[m].step.kind = kind
    BY <2>3
  <2> HIDE DEF m
  <2>5. SubSeq(frames, 1, m) \in Chain(Steps) /\ Len(SubSeq(frames, 1, m)) = m
    BY <2>4, PrefixOf DEF Chain
  <2> QED
    BY <2>1, <2>4, <2>5 DEF m
<1> QED
  BY <1>1, <1>2

-------------------------------------------------------------------------------
(* Chains below a frame *)

\* A new outermost frame leaves the chains below it as they are.
LEMMA PrefixesOfBranch ==
  ASSUME NEW Steps, NEW fs \in Chain(Steps), NEW step \in Steps, NEW delta \in Delta
  PROVE  LET next == Branch(fs, step, delta) IN
         /\ next \in Chain(Steps) /\ next # <<>> /\ Len(next) = Len(fs) + 1
         /\ \A i \in 1 .. Len(fs) : next[i] = fs[i]
         /\ next[Len(fs) + 1] = [step |-> step, delta |-> delta]
         /\ \A i \in 0 .. Len(fs) : SubSeq(next, 1, i) = SubSeq(fs, 1, i)
         /\ SubSeq(next, 1, Len(fs) + 1) = next
         /\ Front(next) = fs
<1> DEFINE F == [step : Steps, delta : Delta]
           new == [step |-> step, delta |-> delta]
           next == Append(fs, new)
<1>1. fs \in Seq(F) /\ new \in F /\ Len(fs) \in Nat
  BY DEF Chain
<1> HIDE DEF F
<1>2. /\ next \in Seq(F) /\ next # <<>> /\ Len(next) = Len(fs) + 1
      /\ \A i \in 1 .. Len(fs) : next[i] = fs[i]
      /\ next[Len(fs) + 1] = new
  BY <1>1, AppendProperties
<1> HIDE DEF next, new
<1>3. ASSUME NEW i \in 0 .. Len(fs) PROVE SubSeq(next, 1, i) = SubSeq(fs, 1, i)
  <2>1. /\ SubSeq(next, 1, i) \in Seq(F) /\ Len(SubSeq(next, 1, i)) = i
        /\ \A j \in 1 .. i : SubSeq(next, 1, i)[j] = next[j]
    BY <1>1, <1>2, PrefixOf
  <2>2. /\ SubSeq(fs, 1, i) \in Seq(F) /\ Len(SubSeq(fs, 1, i)) = i
        /\ \A j \in 1 .. i : SubSeq(fs, 1, i)[j] = fs[j]
    BY <1>1, PrefixOf
  <2>3. \A j \in 1 .. i : next[j] = fs[j]
    BY <1>1, <1>2
  <2> QED
    BY <2>1, <2>2, <2>3, SeqEqual
<1>4. SubSeq(next, 1, Len(fs) + 1) = next /\ SubSeq(fs, 1, Len(fs)) = fs
  BY <1>1, <1>2, SubSeqFull
<1>5. Front(next) = fs
  <2>1. (Len(fs) + 1) - 1 = Len(fs) /\ Len(fs) \in 0 .. Len(fs)
    BY <1>1, SMTT(30)
  <2> QED
    BY <1>2, <1>3, <1>4, <2>1 DEF Front
<1> QED
  BY <1>1, <1>2, <1>3, <1>4, <1>5 DEF F, next, new, Chain, Branch

\* Another outermost frame does so, too.
LEMMA PrefixesOfReplace ==
  ASSUME NEW Steps, NEW fs \in Chain(Steps), fs # <<>>, NEW step \in Steps, NEW delta \in Delta
  PROVE  LET next == ReplaceOuter(fs, step, delta) IN
         /\ next \in Chain(Steps) /\ next # <<>> /\ Len(next) = Len(fs)
         /\ \A i \in 1 .. Len(fs) - 1 : next[i] = fs[i]
         /\ next[Len(fs)] = [step |-> step, delta |-> delta]
         /\ \A i \in 0 .. Len(fs) - 1 : SubSeq(next, 1, i) = SubSeq(fs, 1, i)
         /\ SubSeq(next, 1, Len(fs)) = next
         /\ Front(next) = Front(fs)
<1> DEFINE F == [step : Steps, delta : Delta]
           n == Len(fs)
           new == [step |-> step, delta |-> delta]
           next == [fs EXCEPT ![n] = new]
<1>1. fs \in Seq(F) /\ new \in F /\ n \in Nat /\ n > 0 /\ n \in 1 .. n
  BY DEF Chain
<1> HIDE DEF F
<1>2. /\ next \in Seq(F) /\ Len(next) = n
      /\ \A i \in 1 .. n : next[i] = IF i = n THEN new ELSE fs[i]
  BY <1>1, ExceptSeq
<1> HIDE DEF next, new
<1>3. next # <<>>
  BY <1>1, <1>2
<1>4. ASSUME NEW i \in 0 .. n - 1 PROVE SubSeq(next, 1, i) = SubSeq(fs, 1, i)
  <2>1. /\ SubSeq(next, 1, i) \in Seq(F) /\ Len(SubSeq(next, 1, i)) = i
        /\ \A j \in 1 .. i : SubSeq(next, 1, i)[j] = next[j]
    BY <1>1, <1>2, PrefixOf
  <2>2. /\ SubSeq(fs, 1, i) \in Seq(F) /\ Len(SubSeq(fs, 1, i)) = i
        /\ \A j \in 1 .. i : SubSeq(fs, 1, i)[j] = fs[j]
    BY <1>1, PrefixOf
  <2>3. \A j \in 1 .. i : next[j] = fs[j]
    BY <1>1, <1>2
  <2> QED
    BY <2>1, <2>2, <2>3, SeqEqual
<1>5. SubSeq(next, 1, n) = next
  BY <1>2, SubSeqFull
<1>6. Front(next) = Front(fs)
  <2>1. n - 1 \in 0 .. n - 1
    BY <1>1
  <2> QED
    BY <1>2, <1>4, <2>1 DEF Front
<1>7. ReplaceOuter(fs, step, delta) = next
  BY DEF next, new, ReplaceOuter
<1>8. Chain(Steps) = Seq(F)
  BY DEF F, Chain
<1>9. next[n] = new /\ \A i \in 1 .. n - 1 : next[i] = fs[i]
  BY <1>1, <1>2
<1> QED
  BY <1>1, <1>2, <1>3, <1>4, <1>5, <1>6, <1>7, <1>8, <1>9 DEF new

\* Nor does removing frames change the chains that remain.
LEMMA PrefixesOfPrefix ==
  ASSUME NEW S, NEW s \in Seq(S), NEW n \in 0 .. Len(s), NEW i \in 0 .. n
  PROVE  SubSeq(SubSeq(s, 1, n), 1, i) = SubSeq(s, 1, i)
<1> DEFINE t == SubSeq(s, 1, n)
<1>1. t \in Seq(S) /\ Len(t) = n /\ \A j \in 1 .. n : t[j] = s[j]
  BY PrefixOf
<1> HIDE DEF t
<1>2. i \in 0 .. Len(t) /\ i \in 0 .. Len(s)
  BY <1>1
<1>3. /\ SubSeq(t, 1, i) \in Seq(S) /\ Len(SubSeq(t, 1, i)) = i
      /\ \A j \in 1 .. i : SubSeq(t, 1, i)[j] = t[j]
  BY <1>1, <1>2, PrefixOf
<1>4. /\ SubSeq(s, 1, i) \in Seq(S) /\ Len(SubSeq(s, 1, i)) = i
      /\ \A j \in 1 .. i : SubSeq(s, 1, i)[j] = s[j]
  BY <1>2, PrefixOf
<1>5. \A j \in 1 .. i : t[j] = s[j]
  BY <1>1
<1>6. SubSeq(t, 1, i) = SubSeq(s, 1, i)
  BY <1>3, <1>4, <1>5, SeqEqual
<1> QED
  BY <1>6 DEF t

\* Frames that do not mention a variable do not change its value.
LEMMA LookupBelow ==
  ASSUME NEW Steps, NEW fs \in Chain(Steps), NEW key, NEW m \in 0 .. Len(fs),
         \A i \in m + 1 .. Len(fs) : ~Affects(fs[i].delta, key)
  PROVE  Lookup(fs, key) = Lookup(SubSeq(fs, 1, m), key)
<1> DEFINE sub == SubSeq(fs, 1, m)
           all == {i \in DOMAIN fs : Affects(fs[i].delta, key)}
           low == {i \in DOMAIN sub : Affects(sub[i].delta, key)}
<1>1. /\ Len(fs) \in Nat /\ m \in Nat /\ DOMAIN fs = 1 .. Len(fs) /\ DOMAIN sub = 1 .. m
      /\ \A i \in 1 .. m : sub[i] = fs[i]
  BY PrefixOf DEF Chain
<1> HIDE DEF sub
<1>2. all = low
  BY <1>1
<1>3. low # {} => Max(low) \in 1 .. m
  <2>1. low \in SUBSET (0 .. m)
    BY <1>1
  <2> HIDE DEF low
  <2>2. low # {} => Max(low) \in low
    BY <1>1, <2>1, MaxOf
  <2> QED
    BY <1>1, <2>2 DEF low
<1>4. low # {} => sub[Max(low)] = fs[Max(all)]
  BY <1>1, <1>2, <1>3
<1>5. Lookup(fs, key) = IF all = {} \/ fs[Max(all)].delta.effects[key] = Removed
                        THEN Missing ELSE fs[Max(all)].delta.effects[key]
  BY DEF Lookup
<1>6. Lookup(sub, key) = IF low = {} \/ sub[Max(low)].delta.effects[key] = Removed
                         THEN Missing ELSE sub[Max(low)].delta.effects[key]
  BY DEF Lookup
<1> HIDE DEF all, low
<1>7. Lookup(fs, key) = Lookup(sub, key)
  BY <1>2, <1>4, <1>5, <1>6
<1> QED
  BY <1>7 DEF sub

Visible(effect) == IF effect = Removed THEN Missing ELSE effect

\* The outermost frame decides when it mentions the variable, and the frames
\* below it decide when it does not.
LEMMA LookupAbove ==
  ASSUME NEW Steps, NEW fs \in Chain(Steps), fs # <<>>, NEW key
  PROVE  Lookup(fs, key) = IF Affects(Outer(fs).delta, key)
                           THEN Visible(Outer(fs).delta.effects[key])
                           ELSE Lookup(Front(fs), key)
<1> DEFINE n == Len(fs)
           all == {i \in DOMAIN fs : Affects(fs[i].delta, key)}
<1>1. n \in Nat /\ n > 0 /\ DOMAIN fs = 1 .. n
  BY DEF Chain
<1>2. CASE Affects(Outer(fs).delta, key)
  <2>1. n \in all /\ all \in SUBSET (0 .. n)
    BY <1>1, <1>2 DEF Outer
  <2>2. Lookup(fs, key) = IF all = {} \/ fs[Max(all)].delta.effects[key] = Removed
                          THEN Missing ELSE fs[Max(all)].delta.effects[key]
    BY DEF Lookup
  <2> HIDE DEF all
  <2>3. Max(all) \in all /\ n <= Max(all)
    BY <1>1, <2>1, MaxOf
  <2>4. Max(all) \in 0 .. n
    BY <2>1, <2>3
  <2>5. Max(all) = n
    BY <1>1, <2>3, <2>4
  <2> QED
    BY <1>2, <2>1, <2>2, <2>5 DEF Outer, Visible
<1>3. CASE ~Affects(Outer(fs).delta, key)
  <2>1. n - 1 \in 0 .. n
    BY <1>1
  <2>2. \A i \in (n - 1) + 1 .. n : ~Affects(fs[i].delta, key)
    BY <1>1, <1>3 DEF Outer
  <2>3. Lookup(fs, key) = Lookup(SubSeq(fs, 1, n - 1), key)
    BY <2>1, <2>2, LookupBelow
  <2> QED
    BY <1>3, <2>3 DEF Front
<1> QED
  BY <1>2, <1>3

\* A value that is found was stored by some frame.
LEMMA LookupFound ==
  ASSUME NEW Steps, NEW fs \in Chain(Steps), NEW key, Lookup(fs, key) # Missing
  PROVE  \E i \in 1 .. Len(fs) : fs[i].delta.effects[key] = Lookup(fs, key)
<1> DEFINE all == {i \in DOMAIN fs : Affects(fs[i].delta, key)}
<1>1. Len(fs) \in Nat /\ DOMAIN fs = 1 .. Len(fs) /\ all \in SUBSET (0 .. Len(fs))
  BY DEF Chain
<1>2. Lookup(fs, key) = IF all = {} \/ fs[Max(all)].delta.effects[key] = Removed
                        THEN Missing ELSE fs[Max(all)].delta.effects[key]
  BY DEF Lookup
<1> HIDE DEF all
<1>3. all # {} /\ Max(all) \in all
  BY <1>1, <1>2, MaxOf
<1>4. Max(all) \in 1 .. Len(fs)
  BY <1>1, <1>3 DEF all
<1> QED
  BY <1>2, <1>3, <1>4

\* The nearest frame with a step of the kind, the outermost one included.
Nearest(fs, kind) ==
    LET found == {i \in 1 .. Len(fs) : fs[i].step.kind = kind}
    IN IF found = {} THEN <<>> ELSE SubSeq(fs, 1, Max(found))

\* The nearest frame is a chain that ends with it, or nothing, and no frame
\* above it has a step of the kind.
LEMMA NearestType ==
  ASSUME NEW Steps, NEW fs \in Chain(Steps), NEW kind
  PROVE  \E m \in 0 .. Len(fs) :
            /\ Nearest(fs, kind) = SubSeq(fs, 1, m)
            /\ m > 0 => fs[m].step.kind = kind
            /\ \A i \in m + 1 .. Len(fs) : fs[i].step.kind # kind
<1> DEFINE found == {i \in 1 .. Len(fs) : fs[i].step.kind = kind}
<1>1. Len(fs) \in Nat /\ found \in SUBSET (0 .. Len(fs))
  BY DEF Chain
<1>2. CASE found = {}
  <2>1. SubSeq(fs, 1, 0) = <<>>
    BY SubSeqEmpty
  <2>2. Nearest(fs, kind) = <<>>
    BY <1>2 DEF Nearest
  <2>3. \A i \in 0 + 1 .. Len(fs) : fs[i].step.kind # kind
    BY <1>1, <1>2
  <2>4. 0 \in 0 .. Len(fs) /\ ~(0 > 0)
    BY <1>1
  <2> QED
    BY <2>1, <2>2, <2>3, <2>4
<1>3. CASE found # {}
  <2>1. Nearest(fs, kind) = SubSeq(fs, 1, Max(found))
    BY <1>3 DEF Nearest
  <2>2. Max(found) \in found /\ \A i \in found : i <= Max(found)
    <3> HIDE DEF found
    <3> QED
      BY <1>1, <1>3, MaxOf
  <2> DEFINE m == Max(found)
  <2>3. m \in 0 .. Len(fs) /\ fs[m].step.kind = kind
    BY <2>2
  <2>4. \A i \in m + 1 .. Len(fs) : i \in 1 .. Len(fs) /\ ~(i <= m)
    BY <1>1, <2>3
  <2>5. \A i \in m + 1 .. Len(fs) : fs[i].step.kind # kind
    BY <2>2, <2>4
  <2> HIDE DEF m
  <2> QED
    BY <2>1, <2>3, <2>5 DEF m
<1> QED
  BY <1>2, <1>3

\* A variable that only frames of one kind mention has the value it has at the
\* nearest frame of that kind.
LEMMA LookupAtNearest ==
  ASSUME NEW Steps, NEW fs \in Chain(Steps), NEW key, NEW kind,
         \A i \in 1 .. Len(fs) : fs[i].step.kind # kind => ~Affects(fs[i].delta, key)
  PROVE  Lookup(fs, key) = Lookup(Nearest(fs, kind), key)
<1>1. PICK m \in 0 .. Len(fs) :
         /\ Nearest(fs, kind) = SubSeq(fs, 1, m)
         /\ \A i \in m + 1 .. Len(fs) : fs[i].step.kind # kind
  BY NearestType
<1>2. \A i \in m + 1 .. Len(fs) : i \in 1 .. Len(fs)
  BY DEF Chain
<1> QED
  BY <1>1, <1>2, LookupBelow

\* Chains that agree below the outermost frame have the same ancestors.
LEMMA SameAncestor ==
  ASSUME NEW Steps, NEW fs \in Chain(Steps), NEW next \in Chain(Steps), NEW kind,
         fs # <<>>, next # <<>>, Front(next) = Front(fs)
  PROVE  FindAncestor(next, kind) = FindAncestor(fs, kind)
<1> DEFINE F == [step : Steps, delta : Delta]
           n == Len(fs)
           low == Front(fs)
<1>1. fs \in Seq(F) /\ next \in Seq(F)
  BY DEF Chain
<1> HIDE DEF F
<1>2. n \in Nat /\ n > 0 /\ Len(next) \in Nat /\ Len(next) > 0
  BY <1>1
<1>3. /\ Len(low) = n - 1 /\ \A i \in 1 .. n - 1 : low[i] = fs[i]
      /\ \A i \in 0 .. n - 1 : SubSeq(low, 1, i) = SubSeq(fs, 1, i)
  <2>1. n - 1 \in 0 .. n
    BY <1>2
  <2> QED
    BY <1>1, <2>1, PrefixOf, PrefixesOfPrefix DEF Front
<1>4. /\ Len(low) = Len(next) - 1 /\ \A i \in 1 .. Len(next) - 1 : low[i] = next[i]
      /\ \A i \in 0 .. Len(next) - 1 : SubSeq(low, 1, i) = SubSeq(next, 1, i)
  <2>1. Len(next) - 1 \in 0 .. Len(next)
    BY <1>2
  <2> QED
    BY <1>1, <2>1, PrefixOf, PrefixesOfPrefix, ZenonT(40) DEF Front
<1>5. Len(next) = n
  BY <1>2, <1>3, <1>4
<1> DEFINE found == {i \in 1 .. n - 1 : fs[i].step.kind = kind}
<1>6. found = {i \in 1 .. Len(next) - 1 : next[i].step.kind = kind}
  BY <1>3, <1>4, <1>5
<1>7. found # {} => Max(found) \in 0 .. n - 1
  <2>1. found \in SUBSET (0 .. n - 1) /\ n - 1 \in Nat
    BY <1>2
  <2> HIDE DEF found
  <2> QED
    BY <2>1, MaxOf
<1>8. found # {} => SubSeq(next, 1, Max(found)) = SubSeq(fs, 1, Max(found))
  BY <1>3, <1>4, <1>5, <1>7
<1>9. FindAncestor(fs, kind) = IF found = {} THEN <<>> ELSE SubSeq(fs, 1, Max(found))
  BY DEF FindAncestor
<1>10. FindAncestor(next, kind) = IF found = {} THEN <<>> ELSE SubSeq(next, 1, Max(found))
  BY <1>6 DEF FindAncestor
<1> HIDE DEF found
<1>11. CASE found = {}
  BY <1>9, <1>10, <1>11
<1>12. CASE found # {}
  BY <1>8, <1>9, <1>10, <1>12
<1> QED
  BY <1>11, <1>12

\* The ancestor of a chain is the nearest frame of the chain below it.
LEMMA AncestorIsNearest ==
  ASSUME NEW Steps, NEW fs \in Chain(Steps), fs # <<>>, NEW kind
  PROVE  /\ FindAncestor(fs, kind) = Nearest(Front(fs), kind)
         /\ Outer(fs).step.kind # kind => FindAncestor(fs, kind) = Nearest(fs, kind)
<1> DEFINE F == [step : Steps, delta : Delta]
           n == Len(fs)
           low == Front(fs)
           found == {i \in 1 .. n - 1 : fs[i].step.kind = kind}
<1>1. fs \in Seq(F)
  BY DEF Chain
<1> HIDE DEF F
<1>2. n \in Nat /\ n > 0
  BY <1>1
<1>3. /\ Len(low) = n - 1 /\ \A i \in 1 .. n - 1 : low[i] = fs[i]
      /\ \A i \in 0 .. n - 1 : SubSeq(low, 1, i) = SubSeq(fs, 1, i)
  <2>1. n - 1 \in 0 .. n
    BY <1>2
  <2> QED
    BY <1>1, <2>1, PrefixOf, PrefixesOfPrefix DEF Front
<1>4. found = {i \in 1 .. Len(low) : low[i].step.kind = kind}
  BY <1>3
<1>5. found # {} => Max(found) \in 0 .. n - 1
  <2>1. found \in SUBSET (0 .. n - 1) /\ n - 1 \in Nat
    BY <1>2
  <2> HIDE DEF found
  <2> QED
    BY <2>1, MaxOf
<1>6. FindAncestor(fs, kind) = IF found = {} THEN <<>> ELSE SubSeq(fs, 1, Max(found))
  BY DEF FindAncestor
<1>7. Nearest(low, kind) = IF found = {} THEN <<>> ELSE SubSeq(low, 1, Max(found))
  BY <1>4 DEF Nearest
<1>8. Outer(fs).step.kind # kind => Nearest(fs, kind) = FindAncestor(fs, kind)
  <2> SUFFICES ASSUME Outer(fs).step.kind # kind PROVE Nearest(fs, kind) = FindAncestor(fs, kind)
    OBVIOUS
  <2>1. found = {i \in 1 .. n : fs[i].step.kind = kind}
    BY <1>2 DEF Outer
  <2> QED
    BY <1>6, <2>1 DEF Nearest
<1> HIDE DEF found
<1> QED
  BY <1>3, <1>5, <1>6, <1>7, <1>8

-------------------------------------------------------------------------------
(* Histories: the recursion has a solution, and the solution is typed. *)

HistoryStep(frames, below, i) ==
    IF i = 0 THEN <<>>
    ELSE (IF IsHistoryBarrier(frames[i].step) THEN <<>> ELSE below[i - 1])
             \o frames[i].delta.history

HistoryUpTo(frames, n, h) == h = [i \in 0 .. n |-> HistoryStep(frames, h, i)]

\* The function that collects the history frame by frame is well defined.
LEMMA HistoryExists ==
  ASSUME NEW frames
  PROVE  \A n \in Nat : \E h : HistoryUpTo(frames, n, h)
<1> DEFINE S == {n \in Nat : \E h : HistoryUpTo(frames, n, h)}
<1>1. 0 \in S
  <2> DEFINE h == [i \in 0 .. 0 |-> <<>>]
  <2>1. h = [i \in 0 .. 0 |-> HistoryStep(frames, h, i)]
    BY DEF HistoryStep
  <2> QED
    BY <2>1 DEF HistoryUpTo
<1>2. ASSUME NEW n \in Nat, n \in S PROVE n + 1 \in S
  <2>1. PICK g : g = [i \in 0 .. n |-> HistoryStep(frames, g, i)]
    BY <1>2 DEF HistoryUpTo
  <2> DEFINE h == [i \in 0 .. n + 1 |-> IF i = n + 1 THEN HistoryStep(frames, g, n + 1) ELSE g[i]]
  <2>2. \A i \in 0 .. n : h[i] = g[i] /\ g[i] = HistoryStep(frames, g, i)
    BY <2>1
  <2>3. h[n + 1] = HistoryStep(frames, g, n + 1)
    OBVIOUS
  <2>4. ASSUME NEW i \in 0 .. n + 1 PROVE HistoryStep(frames, h, i) = HistoryStep(frames, g, i)
    <3>1. i # 0 => h[i - 1] = g[i - 1]
      BY <2>2
    <3> HIDE DEF h
    <3> QED
      BY <3>1 DEF HistoryStep
  <2>5. \A i \in 0 .. n + 1 : h[i] = HistoryStep(frames, h, i)
    BY <2>2, <2>3, <2>4
  <2>6. h = [i \in 0 .. n + 1 |-> h[i]]
    OBVIOUS
  <2> HIDE DEF h
  <2>7. HistoryUpTo(frames, n + 1, h)
    BY <2>5, <2>6 DEF HistoryUpTo
  <2> QED
    BY <2>7
<1> HIDE DEF S
<1>3. \A n \in Nat : n \in S
  BY <1>1, <1>2, NatSetInduction
<1> QED
  BY <1>3 DEF S

\* The history is what that function collects up to the last frame.
LEMMA HistoryIsUpTo ==
  ASSUME NEW frames, Len(frames) \in Nat
  PROVE  \E h : HistoryUpTo(frames, Len(frames), h) /\ History(frames) = h[Len(frames)]
<1> DEFINE up == CHOOSE h : HistoryUpTo(frames, Len(frames), h)
<1>1. HistoryUpTo(frames, Len(frames), up)
  BY HistoryExists
<1>2. History(frames) = up[Len(frames)]
  BY DEF History, HistoryUpTo, HistoryStep
<1> QED
  BY <1>1, <1>2

\* The history of a chain is a sequence of messages.
LEMMA HistoryType ==
  ASSUME NEW Steps, NEW frames \in Chain(Steps)
  PROVE  History(frames) \in Seq(Message)
<1>1. Len(frames) \in Nat
  BY DEF Chain
<1>2. PICK h : HistoryUpTo(frames, Len(frames), h) /\ History(frames) = h[Len(frames)]
  BY <1>1, HistoryIsUpTo
<1>3. \A i \in 0 .. Len(frames) : h[i] = HistoryStep(frames, h, i)
  BY <1>2 DEF HistoryUpTo
<1> DEFINE S == {i \in Nat : i <= Len(frames) => h[i] \in Seq(Message)}
<1>4. 0 \in S
  <2>1. h[0] = HistoryStep(frames, h, 0)
    BY <1>1, <1>3
  <2>2. HistoryStep(frames, h, 0) = <<>>
    BY DEF HistoryStep
  <2>3. <<>> \in Seq(Message)
    BY EmptySeq
  <2>4. h[0] \in Seq(Message)
    BY <2>1, <2>2, <2>3, Zenon
  <2> QED
    BY <2>4
<1>5. ASSUME NEW i \in Nat, i \in S PROVE i + 1 \in S
  <2> SUFFICES ASSUME i + 1 <= Len(frames) PROVE h[i + 1] \in Seq(Message)
    OBVIOUS
  <2>1. h[i] \in Seq(Message)
    BY <1>1, <1>5
  <2>2. frames[i + 1].delta.history \in Seq(Message)
    <3>1. i + 1 \in 1 .. Len(frames)
      BY <1>1
    <3>2. frames[i + 1].delta \in Delta
      BY <3>1, FrameOf
    <3> QED
      BY <3>2 DEF Delta
  <2>3. h[i + 1] = (IF IsHistoryBarrier(frames[i + 1].step) THEN <<>> ELSE h[i])
                      \o frames[i + 1].delta.history
    <3>1. h[i + 1] = HistoryStep(frames, h, i + 1)
      BY <1>1, <1>3
    <3>2. (i + 1) - 1 = i /\ i + 1 # 0
      OBVIOUS
    <3> QED
      BY <3>1, <3>2 DEF HistoryStep
  <2> QED
    BY <2>1, <2>2, <2>3
<1> HIDE DEF S
<1>6. Len(frames) \in S
  BY <1>1, <1>4, <1>5, NatSetInduction
<1> QED
  BY <1>1, <1>2, <1>6 DEF S

\* Chains that begin with the same frames collect the same history up to there.
LEMMA HistoriesAgree ==
  ASSUME NEW fs, NEW gs, NEW a \in Nat, NEW n \in 0 .. a,
         NEW f, NEW g, HistoryUpTo(fs, a, f), HistoryUpTo(gs, n, g),
         \A i \in 1 .. n : fs[i] = gs[i]
  PROVE  f[n] = g[n]
<1>1. /\ \A i \in 0 .. a : f[i] = HistoryStep(fs, f, i)
      /\ \A i \in 0 .. n : g[i] = HistoryStep(gs, g, i)
  BY DEF HistoryUpTo
<1> DEFINE S == {i \in Nat : i <= n => f[i] = g[i]}
<1>2. 0 \in S
  <2>1. f[0] = HistoryStep(fs, f, 0) /\ g[0] = HistoryStep(gs, g, 0)
    BY <1>1
  <2> QED
    BY <2>1 DEF HistoryStep
<1>3. ASSUME NEW i \in Nat, i \in S PROVE i + 1 \in S
  <2> SUFFICES ASSUME i + 1 <= n PROVE f[i + 1] = g[i + 1]
    OBVIOUS
  <2>1. f[i] = g[i] /\ fs[i + 1] = gs[i + 1]
    BY <1>3
  <2>2. f[i + 1] = HistoryStep(fs, f, i + 1) /\ g[i + 1] = HistoryStep(gs, g, i + 1)
    BY <1>1
  <2>3. (i + 1) - 1 = i /\ i + 1 # 0
    OBVIOUS
  <2> QED
    BY <2>1, <2>2, <2>3 DEF HistoryStep
<1> HIDE DEF S
<1>4. n \in S
  BY <1>2, <1>3, NatSetInduction
<1> QED
  BY <1>4 DEF S

\* The outermost frame adds its messages to the history below it, or starts a
\* new one.
LEMMA HistoryAbove ==
  ASSUME NEW Steps, NEW fs \in Chain(Steps), fs # <<>>
  PROVE  /\ Front(fs) \in Chain(Steps) /\ Len(Front(fs)) = Len(fs) - 1
         /\ History(fs) = (IF IsHistoryBarrier(Outer(fs).step) THEN <<>> ELSE History(Front(fs)))
                             \o Outer(fs).delta.history
<1> DEFINE n == Len(fs)
           low == Front(fs)
<1>1. n \in Nat /\ n > 0 /\ n - 1 \in Nat /\ n - 1 \in 0 .. n
  BY DEF Chain
<1>2. low \in Chain(Steps) /\ Len(low) = n - 1 /\ \A i \in 1 .. n - 1 : low[i] = fs[i]
  BY <1>1, PrefixOf DEF Front, Chain
<1> HIDE DEF low
<1>3. PICK h : HistoryUpTo(fs, n, h) /\ History(fs) = h[n]
  BY <1>1, HistoryIsUpTo
<1>4. PICK l : HistoryUpTo(low, n - 1, l) /\ History(low) = l[n - 1]
  BY <1>1, <1>2, HistoryIsUpTo
<1>5. h[n - 1] = l[n - 1]
  <2> DEFINE m == n - 1
  <2>1. m \in 0 .. n /\ \A i \in 1 .. m : fs[i] = low[i]
    BY <1>1, <1>2
  <2>2. HistoryUpTo(low, m, l)
    BY <1>4
  <2> HIDE DEF m, n
  <2>3. h[m] = l[m]
    BY <1>1, <1>3, <2>1, <2>2, HistoriesAgree
  <2> QED
    BY <2>3 DEF m
<1>6. h[n] = HistoryStep(fs, h, n)
  BY <1>1, <1>3 DEF HistoryUpTo
<1>7. History(fs) = (IF IsHistoryBarrier(Outer(fs).step) THEN <<>> ELSE History(low))
                       \o Outer(fs).delta.history
  <2>1. h[n] = (IF IsHistoryBarrier(fs[n].step) THEN <<>> ELSE h[n - 1]) \o fs[n].delta.history
    <3>1. n # 0
      BY <1>1
    <3> QED
      BY <1>6, <3>1, Zenon DEF HistoryStep
  <2>2. h[n - 1] = History(low) /\ Outer(fs) = fs[n]
    BY <1>4, <1>5 DEF Outer
  <2> QED
    BY <1>3, <2>1, <2>2
<1> QED
  BY <1>2, <1>7 DEF low

-------------------------------------------------------------------------------
(* Compaction *)

\* The leading system messages are a prefix of the history.
LEMMA SystemEndBounds ==
  ASSUME NEW history \in Seq(Message)
  PROVE  /\ SystemEnd(history) \in 0 .. Len(history)
         /\ \A i \in 1 .. SystemEnd(history) : history[i].role = "system"
<1> DEFINE Leading(n) == \A i \in 1 .. n : history[i].role = "system"
           T == {n \in 0 .. Len(history) : Leading(n)}
<1>1. T \in SUBSET (0 .. Len(history)) /\ Len(history) \in Nat
  OBVIOUS
<1>2. T # {}
  <2>1. 0 \in T
    OBVIOUS
  <2> QED
    BY <2>1
<1>3. SystemEnd(history) = Max(T)
  BY DEF SystemEnd
<1>4. \A n \in T : n \in 0 .. Len(history) /\ Leading(n)
  OBVIOUS
<1> HIDE DEF T
<1>5. SystemEnd(history) \in T
  BY <1>1, <1>2, <1>3, MaxOf
<1> QED
  BY <1>4, <1>5

\* The retained part starts after the system messages, within the history.
LEMMA BudgetStartBounds ==
  ASSUME NEW history \in Seq(Message), NEW budget, SystemEnd(history) < Len(history)
  PROVE  BudgetStart(history, budget) \in SystemEnd(history) .. Len(history) - 1
<1> DEFINE T == {s \in SystemEnd(history) .. Len(history) - 1 :
                    s = Len(history) - 1 \/ Tokens(After(history, s)) <= budget}
<1>1. SystemEnd(history) \in 0 .. Len(history) /\ Len(history) \in Nat
  BY SystemEndBounds
<1>2. T \in SUBSET (0 .. Len(history))
  BY <1>1
<1>3. Len(history) - 1 \in T
  BY <1>1
<1>4. BudgetStart(history, budget) = Min(T)
  BY DEF BudgetStart
<1>5. Min(T) \in T
  <2> HIDE DEF T
  <2> QED
    BY <1>1, <1>2, <1>3, MinOf
<1> QED
  BY <1>4, <1>5

Paired(history, s) == Min(PairedStarts(history, s) \cup {s})

\* Reaching back for the calls of retained results never moves the start later.
LEMMA PairedBounds ==
  ASSUME NEW history, NEW s \in Nat
  PROVE  Paired(history, s) \in 0 .. s
<1>1. PairedStarts(history, s) \subseteq 0 .. s
  BY DEF PairedStarts
<1> DEFINE T == PairedStarts(history, s) \cup {s}
<1>2. T \in SUBSET (0 .. s) /\ T # {}
  BY <1>1
<1> HIDE DEF T
<1>3. Min(T) \in T
  BY <1>2, MinOf
<1> QED
  BY <1>2, <1>3 DEF Paired, T

-------------------------------------------------------------------------------
(* The recursion that moves the start back. *)

ExtendStep(history, below, s) ==
    IF Paired(history, s) = s \/ Paired(history, s) < SystemEnd(history)
    THEN s ELSE below[Paired(history, s)]

ExtendUpTo(history, n, e) == e = [s \in 0 .. n |-> ExtendStep(history, e, s)]

\* The function that extends the retained part backwards is well defined.
LEMMA ExtendExists ==
  ASSUME NEW history
  PROVE  \A n \in Nat : \E e : ExtendUpTo(history, n, e)
<1> DEFINE S == {n \in Nat : \E e : ExtendUpTo(history, n, e)}
<1>1. 0 \in S
  <2> DEFINE e == [s \in 0 .. 0 |-> 0]
  <2>1. Paired(history, 0) = 0
    BY PairedBounds
  <2>2. e = [s \in 0 .. 0 |-> ExtendStep(history, e, s)]
    BY <2>1 DEF ExtendStep
  <2> QED
    BY <2>2 DEF ExtendUpTo
<1>2. ASSUME NEW n \in Nat, n \in S PROVE n + 1 \in S
  <2>1. PICK g : g = [s \in 0 .. n |-> ExtendStep(history, g, s)]
    BY <1>2 DEF ExtendUpTo
  <2> DEFINE e == [s \in 0 .. n + 1 |-> IF s = n + 1 THEN ExtendStep(history, g, n + 1) ELSE g[s]]
  <2>2. \A s \in 0 .. n : e[s] = g[s] /\ g[s] = ExtendStep(history, g, s)
    BY <2>1
  <2>3. e[n + 1] = ExtendStep(history, g, n + 1)
    OBVIOUS
  <2>4. ASSUME NEW s \in 0 .. n + 1
        PROVE  ExtendStep(history, e, s) = ExtendStep(history, g, s)
    <3> DEFINE t == Paired(history, s)
    <3>1. t \in 0 .. s
      BY PairedBounds
    <3> HIDE DEF t, e
    <3>2. t # s => e[t] = g[t]
      BY <2>2, <3>1
    <3> QED
      BY <3>2 DEF ExtendStep, t
  <2>5. \A s \in 0 .. n + 1 : e[s] = ExtendStep(history, e, s)
    BY <2>2, <2>3, <2>4
  <2>6. e = [s \in 0 .. n + 1 |-> e[s]]
    OBVIOUS
  <2> HIDE DEF e
  <2>7. ExtendUpTo(history, n + 1, e)
    BY <2>5, <2>6 DEF ExtendUpTo
  <2> QED
    BY <2>7
<1> HIDE DEF S
<1>3. \A n \in Nat : n \in S
  BY <1>1, <1>2, NatSetInduction
<1> QED
  BY <1>3 DEF S

\* Where no earlier start is called for, or only one within the system prompt.
Settled(history, s) == Paired(history, s) = s \/ Paired(history, s) < SystemEnd(history)

\* The start moves back to the messages after the system prompt at most, and
\* as far as the calls of the retained results are.
LEMMA RetainedStartBounds ==
  ASSUME NEW history \in Seq(Message), NEW budget, SystemEnd(history) < Len(history)
  PROVE  /\ RetainedStart(history, budget) \in SystemEnd(history) .. Len(history) - 1
         /\ Settled(history, RetainedStart(history, budget))
<1> DEFINE n == Len(history)
           first == SystemEnd(history)
           e == CHOOSE f : ExtendUpTo(history, n, f)
<1>1. n \in Nat /\ first \in 0 .. n
  BY SystemEndBounds
<1>2. ExtendUpTo(history, n, e)
  BY <1>1, ExtendExists
<1>3. RetainedStart(history, budget) = e[BudgetStart(history, budget)]
  BY DEF RetainedStart, ExtendUpTo, ExtendStep, Paired
<1>4. BudgetStart(history, budget) \in first .. n - 1
  BY BudgetStartBounds
<1> HIDE DEF e, n, first
<1>5. \A s \in 0 .. n : e[s] = ExtendStep(history, e, s)
  BY <1>2 DEF ExtendUpTo
<1> DEFINE S == {m \in Nat : \A s \in first .. m : s <= n => e[s] \in first .. s /\ Settled(history, e[s])}
<1>6. 0 \in S
  <2> SUFFICES ASSUME NEW s \in first .. 0, s <= n PROVE e[s] \in first .. s /\ Settled(history, e[s])
    OBVIOUS
  <2>1. s = 0 /\ first = 0
    BY <1>1
  <2>2. Paired(history, 0) = 0
    BY PairedBounds
  <2>3. e[0] = 0
    BY <1>1, <1>5, <2>2 DEF ExtendStep
  <2>4. Settled(history, 0)
    BY <2>2 DEF Settled
  <2> QED
    BY <2>1, <2>3, <2>4
<1>7. ASSUME NEW m \in Nat, m \in S PROVE m + 1 \in S
  <2> SUFFICES ASSUME NEW s \in first .. m + 1, s <= n PROVE e[s] \in first .. s /\ Settled(history, e[s])
    OBVIOUS
  <2>1. CASE s # m + 1
    BY <1>1, <1>7, <2>1
  <2>2. CASE s = m + 1
    <3> DEFINE t == Paired(history, s)
    <3>1. t \in 0 .. s
      BY <1>1, PairedBounds
    <3>2. e[s] = IF t = s \/ t < first THEN s ELSE e[t]
      BY <1>1, <1>5 DEF ExtendStep, first
    <3>5. t = s \/ t < first => Settled(history, s)
      BY DEF Settled, first
    <3> HIDE DEF t
    <3>3. CASE t = s \/ t < first
      BY <1>1, <3>2, <3>3, <3>5
    <3>4. CASE t # s /\ ~(t < first)
      <4>1. t \in first .. m /\ t <= n
        BY <1>1, <2>2, <3>1, <3>4
      <4>2. e[t] \in first .. t /\ Settled(history, e[t])
        BY <1>7, <4>1
      <4> QED
        BY <1>1, <3>1, <3>2, <3>4, <4>2
    <3> QED
      BY <3>3, <3>4
  <2> QED
    BY <2>1, <2>2
<1> HIDE DEF S
<1>8. n \in S
  BY <1>1, <1>6, <1>7, NatSetInduction
<1> QED
  BY <1>1, <1>3, <1>4, <1>8 DEF S, n, first

-------------------------------------------------------------------------------

\* The messages compaction puts in are messages.
LEMMA MessageTypes ==
  /\ SystemMessage \in Message /\ UserMessage \in Message
  /\ \A calls \in Seq(CallIds) : AssistantMessage(calls) \in Message
  /\ \A id \in CallIds : ToolResultMessage(id) \in Message
  BY DEF SystemMessage, UserMessage, AssistantMessage, ToolResultMessage, Message, Roles

\* Compaction turns a history into a history that is no longer.
LEMMA CompactType ==
  ASSUME NEW history \in Seq(Message), NEW rate
  PROVE  Compact(history, rate) \in Seq(Message) /\ Len(Compact(history, rate)) <= Len(history)
<1>1. CASE ~NeedsSummary(history, rate)
  BY <1>1 DEF Compact
<1>2. CASE NeedsSummary(history, rate)
  <2> DEFINE first == SystemEnd(history)
             start == RetainedStart(history, RetainBudget(history, rate))
  <2>1. Len(history) \in Nat /\ first \in 0 .. Len(history)
    BY SystemEndBounds
  <2>2. start \in first .. Len(history) - 1
    BY <1>2, RetainedStartBounds DEF NeedsSummary
  <2> HIDE DEF first, start
  <2>3. SubSeq(history, 1, first) \in Seq(Message) /\ Len(SubSeq(history, 1, first)) = first
    BY <2>1, PrefixOf
  <2>4. After(history, start) \in Seq(Message) /\ Len(After(history, start)) = Len(history) - start
    <3>1. start + 1 \in Int /\ Len(history) \in Int
      BY <2>1, <2>2
    <3>2. \A i \in start + 1 .. Len(history) : history[i] \in Message
      BY <2>1, <2>2
    <3>3. start + 1 <= Len(history) /\ (Len(history) - (start + 1)) + 1 = Len(history) - start
      BY <2>1, <2>2
    <3> DEFINE suffix == SubSeq(history, start + 1, Len(history))
    <3>4. suffix \in Seq(Message) /\ Len(suffix) = (Len(history) - (start + 1)) + 1
      BY <3>1, <3>2, <3>3, SubSeqProperties
    <3> QED
      BY <3>3, <3>4 DEF After
  <2>5. <<UserMessage>> \in Seq(Message) /\ Len(<<UserMessage>>) = 1
    BY MessageTypes
  <2>6. Compact(history, rate) = SubSeq(history, 1, first) \o <<UserMessage>> \o After(history, start)
    BY <1>2 DEF Compact, first, start
  <2>7. first + 1 <= start
    <3>1. SystemEnd(history) < RetainedStart(history, RetainBudget(history, rate))
      BY <1>2 DEF NeedsSummary
    <3>2. first < start
      BY <3>1 DEF first, start
    <3> QED
      BY <2>1, <2>2, <3>2
  <2> DEFINE ms == SubSeq(history, 1, first) \o <<UserMessage>>
  <2>8. ms \in Seq(Message) /\ Len(ms) = first + 1
    BY <2>3, <2>5, ConcatProperties
  <2> HIDE DEF ms
  <2>9. ms \o After(history, start) \in Seq(Message)
        /\ Len(ms \o After(history, start)) = (first + 1) + (Len(history) - start)
    <3>1. ms \o After(history, start) \in Seq(Message)
          /\ Len(ms \o After(history, start)) = Len(ms) + Len(After(history, start))
      BY <2>4, <2>8, ConcatProperties
    <3> QED
      BY <2>4, <2>8, <3>1
  <2> QED
    BY <2>1, <2>2, <2>6, <2>7, <2>9 DEF ms
<1> QED
  BY <1>1, <1>2

-------------------------------------------------------------------------------
(* Calls and their results *)

\* What every part of a history is: paired, with calls by the assistant only.
Answered(history) ==
    /\ WellPaired(history)
    /\ \A i \in DOMAIN history : history[i].calls # <<>> => history[i].role = "assistant"

\* What Answered says, position by position.
LEMMA AnsweredAt ==
  ASSUME NEW history \in Seq(Message)
  PROVE  Answered(history) <=>
           /\ \A i \in 1 .. Len(history) : \A k \in 1 .. Len(history[i].calls) :
                 i + k <= Len(history) /\ history[i + k] = ToolResultMessage(history[i].calls[k])
           /\ \A r \in 1 .. Len(history) : history[r].role = "tool" =>
                 \E i \in 1 .. r - 1 : r - i <= Len(history[i].calls)
           /\ \A i \in 1 .. Len(history) : history[i].calls # <<>> => history[i].role = "assistant"
<1>1. /\ DOMAIN history = 1 .. Len(history) /\ Len(history) \in Nat
      /\ \A i \in 1 .. Len(history) : /\ DOMAIN history[i].calls = 1 .. Len(history[i].calls)
                                      /\ Len(history[i].calls) \in Nat
  BY DEF Message
<1>2. WellPaired(history) <=>
         /\ \A i \in 1 .. Len(history) : \A k \in 1 .. Len(history[i].calls) :
               i + k \in 1 .. Len(history) /\ history[i + k] = ToolResultMessage(history[i].calls[k])
         /\ \A r \in 1 .. Len(history) : history[r].role = "tool" =>
               \E i \in 1 .. r - 1 : r - i \in 1 .. Len(history[i].calls)
  <2>1. \A r \in 1 .. Len(history) : \A i \in 1 .. r - 1 : i \in 1 .. Len(history)
    BY <1>1
  <2> QED
    BY <1>1, <2>1 DEF WellPaired
<1>3. \A i \in 1 .. Len(history) : \A k \in 1 .. Len(history[i].calls) :
         i + k \in 1 .. Len(history) <=> i + k <= Len(history)
  BY <1>1
<1>4. \A r \in 1 .. Len(history) : \A i \in 1 .. r - 1 :
         r - i \in 1 .. Len(history[i].calls) <=> r - i <= Len(history[i].calls)
  BY <1>1
<1> QED
  BY <1>1, <1>2, <1>3, <1>4 DEF Answered

\* One part after another keeps calls and results together.
LEMMA AnsweredConcat ==
  ASSUME NEW a \in Seq(Message), NEW b \in Seq(Message), Answered(a), Answered(b)
  PROVE  a \o b \in Seq(Message) /\ Answered(a \o b)
<1> DEFINE m == Len(a)
           n == Len(b)
           c == a \o b
<1>1. /\ m \in Nat /\ n \in Nat /\ c \in Seq(Message) /\ Len(c) = m + n
      /\ \A i \in 1 .. m : c[i] = a[i]
      /\ \A i \in 1 .. n : c[m + i] = b[i]
  <2>1. /\ c \in Seq(Message) /\ Len(c) = m + n
        /\ \A i \in 1 .. m + n : c[i] = IF i <= m THEN a[i] ELSE b[i - m]
    BY ConcatProperties
  <2> HIDE DEF c
  <2>2. ASSUME NEW i \in 1 .. n PROVE c[m + i] = b[i]
    <3>1. m + i \in 1 .. m + n /\ ~(m + i <= m) /\ (m + i) - m = i
      OBVIOUS
    <3> QED
      BY <2>1, <3>1
  <2>3. ASSUME NEW i \in 1 .. m PROVE c[i] = a[i]
    BY <2>1
  <2> QED
    BY <2>1, <2>2, <2>3
<1>2. /\ \A i \in 1 .. m : \A k \in 1 .. Len(a[i].calls) :
            i + k <= m /\ a[i + k] = ToolResultMessage(a[i].calls[k])
      /\ \A r \in 1 .. m : a[r].role = "tool" => \E i \in 1 .. r - 1 : r - i <= Len(a[i].calls)
      /\ \A i \in 1 .. m : a[i].calls # <<>> => a[i].role = "assistant"
  BY AnsweredAt
<1>3. /\ \A i \in 1 .. n : \A k \in 1 .. Len(b[i].calls) :
            i + k <= n /\ b[i + k] = ToolResultMessage(b[i].calls[k])
      /\ \A r \in 1 .. n : b[r].role = "tool" => \E i \in 1 .. r - 1 : r - i <= Len(b[i].calls)
      /\ \A i \in 1 .. n : b[i].calls # <<>> => b[i].role = "assistant"
  BY AnsweredAt
<1> HIDE DEF c, m, n
<1>4. \A i \in 1 .. m + n : i \in 1 .. m \/ \E j \in 1 .. n : i = m + j
  <2> SUFFICES ASSUME NEW i \in 1 .. m + n, i \notin 1 .. m PROVE \E j \in 1 .. n : i = m + j
    OBVIOUS
  <2>1. i - m \in 1 .. n /\ i = m + (i - m)
    BY <1>1
  <2> QED
    BY <2>1
<1>5. ASSUME NEW i \in 1 .. m + n, NEW k \in 1 .. Len(c[i].calls)
      PROVE  i + k <= m + n /\ c[i + k] = ToolResultMessage(c[i].calls[k])
  <2>1. CASE i \in 1 .. m
    <3>1. i + k <= m /\ a[i + k] = ToolResultMessage(a[i].calls[k]) /\ c[i] = a[i]
      BY <1>1, <1>2, <2>1
    <3>2. i + k \in 1 .. m
      BY <1>1, <2>1, <3>1
    <3> QED
      BY <1>1, <3>1, <3>2, SMTT(30)
  <2>2. ASSUME NEW j \in 1 .. n, i = m + j PROVE i + k <= m + n /\ c[i + k] = ToolResultMessage(c[i].calls[k])
    <3>1. j + k <= n /\ b[j + k] = ToolResultMessage(b[j].calls[k]) /\ c[i] = b[j]
      BY <1>1, <1>3, <2>2
    <3>2. j + k \in 1 .. n /\ i + k = m + (j + k)
      BY <1>1, <2>2, <3>1
    <3>3. c[m + (j + k)] = b[j + k]
      BY <1>1, <3>2
    <3>4. c[i + k] = c[m + (j + k)]
      BY <3>2
    <3>5. i + k <= m + n
      BY <1>1, <3>2
    <3> QED
      BY <3>1, <3>3, <3>4, <3>5
  <2> QED
    BY <1>4, <2>1, <2>2
<1>6. ASSUME NEW r \in 1 .. m + n, c[r].role = "tool"
      PROVE  \E i \in 1 .. r - 1 : r - i <= Len(c[i].calls)
  <2>1. CASE r \in 1 .. m
    <3>1. PICK i \in 1 .. r - 1 : r - i <= Len(a[i].calls)
      BY <1>1, <1>2, <1>6, <2>1
    <3>2. i \in 1 .. m
      BY <1>1, <2>1
    <3> QED
      BY <1>1, <3>1, <3>2
  <2>2. ASSUME NEW q \in 1 .. n, r = m + q PROVE \E i \in 1 .. r - 1 : r - i <= Len(c[i].calls)
    <3>1. PICK j \in 1 .. q - 1 : q - j <= Len(b[j].calls)
      BY <1>1, <1>3, <1>6, <2>2
    <3>2. j \in 1 .. n /\ m + j \in 1 .. r - 1 /\ r - (m + j) = q - j
      BY <1>1, <2>2
    <3>3. c[m + j] = b[j]
      BY <1>1, <3>2
    <3> QED
      BY <3>1, <3>2, <3>3
  <2> QED
    BY <1>4, <2>1, <2>2
<1>7. ASSUME NEW i \in 1 .. m + n, c[i].calls # <<>> PROVE c[i].role = "assistant"
  <2>1. CASE i \in 1 .. m
    BY <1>1, <1>2, <1>7, <2>1
  <2>2. ASSUME NEW j \in 1 .. n, i = m + j PROVE c[i].role = "assistant"
    <3>1. c[i] = b[j]
      BY <1>1, <2>2
    <3> QED
      BY <1>3, <1>7, <3>1
  <2> QED
    BY <1>4, <2>1, <2>2
<1>8. c \in Seq(Message) /\ Answered(c)
  BY <1>1, <1>5, <1>6, <1>7, AnsweredAt
<1> QED
  BY <1>8 DEF c

\* Messages that neither call nor answer need no others.
LEMMA AnsweredPlain ==
  ASSUME NEW ms \in Seq(Message),
         \A i \in 1 .. Len(ms) : ms[i].calls = <<>> /\ ms[i].role # "tool"
  PROVE  Answered(ms)
<1>1. \A i \in 1 .. Len(ms) : \A k \in 1 .. Len(ms[i].calls) : FALSE
  <2>1. \A i \in 1 .. Len(ms) : Len(ms[i].calls) = 0
    OBVIOUS
  <2> QED
    BY <2>1
<1> QED
  BY <1>1, AnsweredAt

LEMMA AnsweredSimple ==
  /\ Answered(<<>>) /\ Answered(<<SystemMessage>>) /\ Answered(<<UserMessage>>)
  /\ Answered(<<AssistantMessage(<<>>)>>)
<1>1. Answered(<<>>)
  <2>1. <<>> \in Seq(Message) /\ \A i \in 1 .. Len(<<>>) : FALSE
    BY EmptySeq
  <2> QED
    BY <2>1, AnsweredPlain
<1>2. ASSUME NEW m \in Message, m.calls = <<>>, m.role # "tool" PROVE Answered(<<m>>)
  <2>1. <<m>> \in Seq(Message) /\ \A i \in 1 .. Len(<<m>>) : <<m>>[i] = m
    OBVIOUS
  <2> QED
    BY <1>2, <2>1, AnsweredPlain
<1>3. AssistantMessage(<<>>) \in Message
  BY EmptySeq, MessageTypes
<1> QED
  BY <1>1, <1>2, <1>3, MessageTypes DEF SystemMessage, UserMessage, AssistantMessage

\* An assistant message with all results of its calls is paired.
LEMMA AnsweredTurn ==
  ASSUME NEW pending \in Seq(Message), Answered(pending), NEW calls \in Seq(CallIds)
  PROVE  TurnMessages(pending, calls, calls) \in Seq(Message)
         /\ Answered(TurnMessages(pending, calls, calls))
<1> DEFINE results == [i \in 1 .. Len(calls) |-> ToolResultMessage(calls[i])]
           request == AssistantMessage(calls)
           turn == <<request>> \o results
           n == Len(calls)
<1>1. /\ n \in Nat /\ results \in Seq(Message) /\ Len(results) = n /\ request \in Message
      /\ \A i \in 1 .. n : results[i] = ToolResultMessage(calls[i])
  <2>1. \A i \in 1 .. n : ToolResultMessage(calls[i]) \in Message
    BY MessageTypes
  <2> QED
    BY <2>1, MessageTypes
<1>2. request.calls = calls /\ request.role = "assistant"
  BY DEF AssistantMessage
<1> HIDE DEF results, request
<1>3. /\ turn \in Seq(Message) /\ Len(turn) = n + 1 /\ turn[1] = request
      /\ \A i \in 1 .. n : turn[1 + i] = results[i]
  <2>1. /\ turn \in Seq(Message) /\ Len(turn) = 1 + n
        /\ \A i \in 1 .. 1 + n : turn[i] = IF i <= 1 THEN <<request>>[i] ELSE results[i - 1]
    BY <1>1, ConcatProperties
  <2> HIDE DEF turn
  <2>2. ASSUME NEW i \in 1 .. n PROVE turn[1 + i] = results[i]
    <3>1. 1 + i \in 1 .. 1 + n /\ ~(1 + i <= 1) /\ (1 + i) - 1 = i
      BY <1>1
    <3> QED
      BY <2>1, <3>1
  <2>3. turn[1] = request
    <3>1. 1 \in 1 .. 1 + n /\ 1 <= 1
      BY <1>1
    <3> QED
      BY <2>1, <3>1
  <2> QED
    BY <1>1, <2>1, <2>2, <2>3
<1> HIDE DEF turn
<1>4. ASSUME NEW i \in 1 .. n
      PROVE  /\ turn[1 + i] = ToolResultMessage(calls[i])
             /\ turn[1 + i].calls = <<>> /\ Len(turn[1 + i].calls) = 0
  BY <1>1, <1>3 DEF ToolResultMessage
<1> HIDE DEF n
<1>5. \A i \in 1 .. n + 1 : i = 1 \/ \E j \in 1 .. n : i = 1 + j
  <2> SUFFICES ASSUME NEW i \in 1 .. n + 1, i # 1 PROVE \E j \in 1 .. n : i = 1 + j
    OBVIOUS
  <2>1. i - 1 \in 1 .. n /\ i = 1 + (i - 1)
    BY <1>1
  <2> QED
    BY <2>1
<1>6. ASSUME NEW i \in 1 .. n + 1, NEW k \in 1 .. Len(turn[i].calls)
      PROVE  i + k <= n + 1 /\ turn[i + k] = ToolResultMessage(turn[i].calls[k])
  <2>1. CASE i = 1
    BY <1>1, <1>2, <1>3, <1>4, <2>1 DEF n
  <2>2. ASSUME NEW j \in 1 .. n, i = 1 + j PROVE FALSE
    BY <1>4, <2>2
  <2> QED
    BY <1>5, <2>1, <2>2
<1>7. ASSUME NEW r \in 1 .. n + 1, turn[r].role = "tool"
      PROVE  \E i \in 1 .. r - 1 : r - i <= Len(turn[i].calls)
  <2>1. r # 1
    BY <1>2, <1>3, <1>7
  <2>2. 1 \in 1 .. r - 1 /\ r - 1 <= n
    BY <1>1, <2>1
  <2>3. Len(turn[1].calls) = n
    BY <1>2, <1>3 DEF n
  <2> QED
    BY <2>2, <2>3
<1>8. ASSUME NEW i \in 1 .. n + 1, turn[i].calls # <<>> PROVE turn[i].role = "assistant"
  BY <1>2, <1>3, <1>4, <1>5, <1>8
<1>9. Answered(turn)
  BY <1>3, <1>6, <1>7, <1>8, AnsweredAt
<1>10. pending \o turn \in Seq(Message) /\ Answered(pending \o turn)
  BY <1>3, <1>9, AnsweredConcat
<1>11. TurnMessages(pending, calls, calls) = pending \o turn
  <2>1. <<request>> \in Seq(Message)
    BY <1>1
  <2>2. (pending \o <<request>>) \o results = pending \o (<<request>> \o results)
    BY <1>1, <2>1, ConcatAssociative
  <2> QED
    BY <2>2 DEF TurnMessages, results, request, turn
<1> QED
  BY <1>10, <1>11

\* What is kept after a position at which no result lacks its call is paired,
\* and so are the system messages.
LEMMA AnsweredSuffix ==
  ASSUME NEW history \in Seq(Message), Answered(history), NEW s \in 0 .. Len(history),
         \A r \in s + 1 .. Len(history) : \A c \in 1 .. s :
            history[r].role = "tool" => ~(r - c <= Len(history[c].calls))
  PROVE  After(history, s) \in Seq(Message) /\ Answered(After(history, s))
<1> DEFINE n == Len(history)
           low == After(history, s)
<1>1. /\ n \in Nat /\ low \in Seq(Message) /\ Len(low) = n - s
      /\ \A i \in 1 .. n - s : low[i] = history[s + i]
  <2>1. s + 1 \in Int /\ n \in Int /\ \A i \in s + 1 .. n : history[i] \in Message
    OBVIOUS
  <2> DEFINE sub == SubSeq(history, s + 1, n)
             size == IF s + 1 <= n THEN (n - (s + 1)) + 1 ELSE 0
  <2>2. /\ sub \in Seq(Message) /\ Len(sub) = size
        /\ \A i \in 1 .. size : sub[i] = history[(s + 1) + i - 1]
    BY <2>1, SubSeqProperties
  <2>3. size = n - s /\ n \in Nat
    OBVIOUS
  <2> HIDE DEF sub, size
  <2>4. ASSUME NEW i \in 1 .. n - s PROVE sub[i] = history[s + i]
    <3>1. (s + 1) + i - 1 = s + i
      OBVIOUS
    <3> QED
      BY <2>2, <2>3, <3>1
  <2> QED
    BY <2>2, <2>3, <2>4 DEF After, sub
<1>2. /\ \A i \in 1 .. n : \A k \in 1 .. Len(history[i].calls) :
            i + k <= n /\ history[i + k] = ToolResultMessage(history[i].calls[k])
      /\ \A r \in 1 .. n : history[r].role = "tool" =>
            \E i \in 1 .. r - 1 : r - i <= Len(history[i].calls)
      /\ \A i \in 1 .. n : history[i].calls # <<>> => history[i].role = "assistant"
  BY AnsweredAt
<1> HIDE DEF n, low
<1>3. \A i \in 1 .. n - s : s + i \in 1 .. n /\ s + i \in s + 1 .. n
  BY <1>1
<1>4. ASSUME NEW i \in 1 .. n - s, NEW k \in 1 .. Len(low[i].calls)
      PROVE  i + k <= n - s /\ low[i + k] = ToolResultMessage(low[i].calls[k])
  <2>1. low[i] = history[s + i]
    BY <1>1
  <2>2. (s + i) + k <= n /\ history[(s + i) + k] = ToolResultMessage(low[i].calls[k])
    BY <1>2, <1>3, <2>1
  <2>3. i + k \in 1 .. n - s /\ s + (i + k) = (s + i) + k
    BY <1>1, <2>2
  <2>4. low[i + k] = history[s + (i + k)]
    BY <1>1, <2>3
  <2>5. i + k <= n - s
    BY <2>3, <1>1
  <2> QED
    BY <2>2, <2>3, <2>4, <2>5
<1>5. ASSUME NEW r \in 1 .. n - s, low[r].role = "tool"
      PROVE  \E i \in 1 .. r - 1 : r - i <= Len(low[i].calls)
  <2>1. s + r \in 1 .. n /\ s + r \in s + 1 .. n /\ history[s + r].role = "tool"
    BY <1>1, <1>3, <1>5
  <2>2. PICK c \in 1 .. (s + r) - 1 : (s + r) - c <= Len(history[c].calls)
    BY <1>2, <2>1
  <2>3. c \notin 1 .. s
    BY <2>1, <2>2 DEF n
  <2>4. c - s \in 1 .. r - 1 /\ c - s \in 1 .. n - s /\ s + (c - s) = c /\ r - (c - s) = (s + r) - c
    BY <1>1, <2>2, <2>3
  <2>5. low[c - s] = history[c]
    BY <1>1, <2>4
  <2> QED
    BY <2>2, <2>4, <2>5
<1>6. ASSUME NEW i \in 1 .. n - s, low[i].calls # <<>> PROVE low[i].role = "assistant"
  BY <1>1, <1>2, <1>3, <1>6, ZenonT(40)
<1>7. low \in Seq(Message) /\ Answered(low)
  <2>1. \A i \in 1 .. Len(low) : \A k \in 1 .. Len(low[i].calls) :
           i + k <= Len(low) /\ low[i + k] = ToolResultMessage(low[i].calls[k])
    BY <1>1, <1>4, Zenon
  <2>2. \A r \in 1 .. Len(low) : low[r].role = "tool" =>
           \E i \in 1 .. r - 1 : r - i <= Len(low[i].calls)
    BY <1>1, <1>5, Zenon
  <2>3. \A i \in 1 .. Len(low) : low[i].calls # <<>> => low[i].role = "assistant"
    BY <1>1, <1>6, Zenon
  <2> QED
    BY <1>1, <2>1, <2>2, <2>3, AnsweredAt
<1> QED
  BY <1>7 DEF low

\* A start that is settled cuts no result off from its call.  The calls of an
\* earlier turn with the same identifier do not mislead it: between a call and
\* its result there are results only.
LEMMA SettledKeepsCalls ==
  ASSUME NEW history \in Seq(Message), Answered(history), NEW s \in 0 .. Len(history),
         Settled(history, s), NEW r \in s + 1 .. Len(history), NEW c \in 1 .. s,
         history[r].role = "tool"
  PROVE  ~(r - c <= Len(history[c].calls))
<1> SUFFICES ASSUME r - c <= Len(history[c].calls) PROVE FALSE
  OBVIOUS
<1> DEFINE n == Len(history)
           id == history[r].id
           Calls(d, x) == history[d].role = "assistant" /\ x \in ToSet(history[d].calls)
<1>1. /\ n \in Nat /\ s \in Nat /\ c \in 1 .. n /\ r \in 1 .. n /\ r - c \in 1 .. Len(history[c].calls)
      /\ c + (r - c) = r
  OBVIOUS
<1>2. /\ \A i \in 1 .. n : \A k \in 1 .. Len(history[i].calls) :
            i + k <= n /\ history[i + k] = ToolResultMessage(history[i].calls[k])
      /\ \A i \in 1 .. n : history[i].calls # <<>> => history[i].role = "assistant"
  BY AnsweredAt
<1>3. id = history[c].calls[r - c]
  <2>1. history[r] = ToolResultMessage(history[c].calls[r - c])
    BY <1>1, <1>2
  <2> QED
    BY <2>1 DEF ToolResultMessage
<1>4. history[c].role = "assistant"
  <2>1. history[c].calls # <<>>
    BY <1>1, SMTT(30)
  <2> QED
    BY <1>1, <1>2, <2>1
<1>5. Calls(c, id)
  <2>1. DOMAIN history[c].calls = 1 .. Len(history[c].calls)
    BY <1>1 DEF Message
  <2> QED
    BY <1>1, <1>3, <1>4, <2>1 DEF ToSet
<1>6. \A d \in c + 1 .. s : ~Calls(d, id)
  <2> SUFFICES ASSUME NEW d \in c + 1 .. s PROVE history[d].role # "assistant"
    OBVIOUS
  <2>1. d - c \in 1 .. Len(history[c].calls) /\ c + (d - c) = d
    BY <1>1
  <2>2. history[d] = ToolResultMessage(history[c].calls[d - c])
    BY <1>1, <1>2, <2>1
  <2> QED
    BY <2>2 DEF ToolResultMessage
<1> HIDE DEF Calls
<1>7. c - 1 \in PairedStarts(history, s)
  <2> DEFINE Earliest(x) == {d \in 1 .. s : /\ Calls(d, x)
                                            /\ \A e \in d + 1 .. s : ~Calls(e, x)}
             Results == {q \in s + 1 .. n : history[q].role = "tool"}
  <2>1. c \in Earliest(id) /\ r \in Results
    BY <1>5, <1>6
  <2>2. c \in UNION {Earliest(history[q].id) : q \in Results}
    BY <2>1
  <2>3. PairedStarts(history, s) = {d - 1 : d \in UNION {Earliest(history[q].id) : q \in Results}}
    BY DEF PairedStarts, Calls
  <2> HIDE DEF Earliest, Results
  <2> QED
    BY <2>2, <2>3
<1>8. \A t \in PairedStarts(history, s) :
         t \in 0 .. s - 1 /\ history[t + 1].role = "assistant"
  <2> SUFFICES ASSUME NEW t \in PairedStarts(history, s)
               PROVE  t \in 0 .. s - 1 /\ history[t + 1].role = "assistant"
    OBVIOUS
  <2>1. PICK d \in 1 .. s : t = d - 1 /\ history[d].role = "assistant"
    BY DEF PairedStarts
  <2>2. t + 1 = d
    BY <2>1
  <2> QED
    BY <1>1, <2>1, <2>2
<1> DEFINE T == PairedStarts(history, s) \cup {s}
<1>9. T \in SUBSET (0 .. s) /\ T # {} /\ c - 1 \in T
  BY <1>1, <1>7, <1>8
<1>10. Paired(history, s) = Min(T)
  BY DEF Paired
<1> HIDE DEF T
<1>11. Paired(history, s) \in T /\ Paired(history, s) <= c - 1
  <2>1. Min(T) \in T /\ \A t \in T : Min(T) <= t
    BY <1>1, <1>9, MinOf
  <2> QED
    BY <1>9, <1>10, <2>1
<1>12. Paired(history, s) \in PairedStarts(history, s)
  BY <1>1, <1>11 DEF T
<1>13. Paired(history, s) < SystemEnd(history)
  BY <1>1, <1>11 DEF Settled
<1> DEFINE p == Paired(history, s)
<1>14. p + 1 \in 1 .. SystemEnd(history)
  <2>1. p \in 0 .. s - 1 /\ SystemEnd(history) \in 0 .. n
    BY <1>8, <1>12, SystemEndBounds
  <2> HIDE DEF p
  <2> QED
    BY <1>1, <1>13, <2>1 DEF p
<1>15. history[p + 1].role = "system" /\ history[p + 1].role = "assistant"
  BY <1>8, <1>12, <1>14, SystemEndBounds
<1> QED
  BY <1>15

\* Compaction keeps calls and their results together.
LEMMA AnsweredCompact ==
  ASSUME NEW history \in Seq(Message), NEW rate, Answered(history)
  PROVE  Answered(Compact(history, rate))
<1>1. CASE ~NeedsSummary(history, rate)
  BY <1>1 DEF Compact
<1>2. CASE NeedsSummary(history, rate)
  <2> DEFINE first == SystemEnd(history)
             start == RetainedStart(history, RetainBudget(history, rate))
             prompt == SubSeq(history, 1, first)
  <2>1. Len(history) \in Nat /\ first \in 0 .. Len(history)
        /\ \A i \in 1 .. first : history[i].role = "system"
    BY SystemEndBounds
  <2>2. start \in first .. Len(history) - 1 /\ Settled(history, start)
    BY <1>2, RetainedStartBounds DEF NeedsSummary
  <2> HIDE DEF first, start, prompt
  <2>3. prompt \in Seq(Message) /\ Answered(prompt)
    <3>1. /\ prompt \in Seq(Message) /\ Len(prompt) = first
          /\ \A i \in 1 .. first : prompt[i] = history[i]
      BY <2>1, PrefixOf DEF prompt
    <3>2. \A i \in 1 .. Len(history) : history[i].calls # <<>> => history[i].role = "assistant"
      BY AnsweredAt
    <3>3. \A i \in 1 .. Len(prompt) : prompt[i].calls = <<>> /\ prompt[i].role # "tool"
      BY <2>1, <3>1, <3>2
    <3> QED
      BY <3>1, <3>3, AnsweredPlain
  <2>4. After(history, start) \in Seq(Message) /\ Answered(After(history, start))
    <3>1. start \in 0 .. Len(history)
      BY <2>1, <2>2
    <3>2. \A r \in start + 1 .. Len(history) : \A c \in 1 .. start :
             history[r].role = "tool" => ~(r - c <= Len(history[c].calls))
      BY <2>2, <3>1, SettledKeepsCalls
    <3> QED
      BY <3>1, <3>2, AnsweredSuffix
  <2>5. <<UserMessage>> \in Seq(Message) /\ Answered(<<UserMessage>>)
    BY MessageTypes, AnsweredSimple
  <2>6. prompt \o <<UserMessage>> \in Seq(Message) /\ Answered(prompt \o <<UserMessage>>)
    BY <2>3, <2>5, AnsweredConcat
  <2>7. Answered((prompt \o <<UserMessage>>) \o After(history, start))
    BY <2>4, <2>6, AnsweredConcat
  <2>8. Compact(history, rate) = (prompt \o <<UserMessage>>) \o After(history, start)
    BY <1>2 DEF Compact, first, start, prompt
  <2> QED
    BY <2>7, <2>8
<1> QED
  BY <1>1, <1>2

\* A chain whose frames are paired has a paired history.
LEMMA AnsweredHistory ==
  ASSUME NEW Steps, NEW fs \in Chain(Steps),
         \A i \in 1 .. Len(fs) : Answered(fs[i].delta.history)
  PROVE  Answered(History(fs))
<1> DEFINE Low(n) == SubSeq(fs, 1, n)
           S == {n \in Nat : n <= Len(fs) => Answered(History(Low(n)))}
<1>1. Len(fs) \in Nat /\ fs \in Seq([step : Steps, delta : Delta])
  BY DEF Chain
<1>2. 0 \in S
  <2>1. Low(0) = <<>> /\ Len(Low(0)) = 0
    BY <1>1, SubSeqEmpty
  <2> HIDE DEF Low
  <2>2. PICK h : HistoryUpTo(Low(0), Len(Low(0)), h) /\ History(Low(0)) = h[Len(Low(0))]
    BY <2>1, HistoryIsUpTo
  <2>3. h[0] = HistoryStep(Low(0), h, 0)
    BY <2>1, <2>2 DEF HistoryUpTo
  <2>4. History(Low(0)) = <<>>
    BY <2>1, <2>2, <2>3 DEF HistoryStep
  <2> QED
    BY <2>4, AnsweredSimple
<1>3. ASSUME NEW n \in Nat, n \in S PROVE n + 1 \in S
  <2> SUFFICES ASSUME n + 1 <= Len(fs) PROVE Answered(History(Low(n + 1)))
    OBVIOUS
  <2> DEFINE g == Low(n + 1)
  <2>1. n + 1 \in 0 .. Len(fs) /\ n \in 0 .. n + 1 /\ n + 1 \in 1 .. Len(fs) /\ n + 1 \in 1 .. n + 1
    BY <1>1
  <2>2. g \in Chain(Steps) /\ Len(g) = n + 1 /\ g[n + 1] = fs[n + 1]
    BY <1>1, <2>1, PrefixOf DEF Chain
  <2>3. SubSeq(g, 1, n) = Low(n)
    BY <1>1, <2>1, PrefixesOfPrefix
  <2> HIDE DEF g, Low
  <2>4. g # <<>> /\ Outer(g) = fs[n + 1] /\ Front(g) = Low(n)
    <3>1. Len(g) - 1 = n
      BY <2>2
    <3> QED
      BY <2>2, <2>3, <3>1 DEF Outer, Front
  <2> DEFINE below == IF IsHistoryBarrier(Outer(g).step) THEN <<>> ELSE History(Low(n))
             own == fs[n + 1].delta.history
  <2>5. History(g) = below \o own /\ Low(n) \in Chain(Steps)
    BY <2>2, <2>4, HistoryAbove
  <2>6. below \in Seq(Message) /\ Answered(below)
    <3>1. Answered(History(Low(n)))
      BY <1>1, <1>3
    <3>2. History(Low(n)) \in Seq(Message)
      BY <2>5, HistoryType
    <3> QED
      BY <3>1, <3>2, EmptySeq, AnsweredSimple
  <2>7. own \in Seq(Message) /\ Answered(own)
    BY <2>1, FrameOf DEF Delta
  <2> HIDE DEF below, own
  <2> QED
    BY <2>5, <2>6, <2>7, AnsweredConcat DEF g
<1> HIDE DEF S
<1>4. Len(fs) \in S
  BY <1>1, <1>2, <1>3, NatSetInduction
<1>5. Answered(History(Low(Len(fs))))
  BY <1>1, <1>4 DEF S
<1>6. Low(Len(fs)) = fs
  BY <1>1, SubSeqFull
<1> QED
  BY <1>5, <1>6
===============================================================================
