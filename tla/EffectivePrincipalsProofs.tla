--------------------- MODULE EffectivePrincipalsProofs ---------------------
(* What the loop of effectivePrincipals returns, on every graph. *)
EXTENDS EffectivePrincipalsWalk, TLAPS

\* What is seen is reachable, and what is seen and no longer queued has had its
\* groups seen.
WalkInv ==
    /\ edges \subseteq Principals \X Groups
    /\ seen \subseteq Principals
    /\ Self \in seen
    /\ queue \subseteq seen
    /\ \A e \in edges : e[1] \in seen \ queue => e[2] \in seen
    /\ seen \subseteq EffectivePrincipals(edges, Self)

\* The loop keeps WalkInv from the first round on.
LEMMA WalkInvariant == Spec => []WalkInv
<1>1. Init => WalkInv
  BY WalkAssumption DEF Init, WalkInv, EffectivePrincipals
<1>2. WalkInv /\ [Next]_vars => WalkInv'
  <2> SUFFICES ASSUME WalkInv, [Next]_vars PROVE WalkInv'
    OBVIOUS
  <2>1. CASE UNCHANGED vars
    BY <2>1 DEF WalkInv, vars
  <2>2. CASE Next
    <3> PICK current \in Principals : Visit(current)
      BY <2>2 DEF Next
    <3>1. Unseen(current) \subseteq Principals /\ edges' = edges
      BY WalkAssumption DEF Unseen, Visit
    <3>2. \A e \in edges : e[1] \in Principals /\ e[2] \in Groups /\ e = <<e[1], e[2]>>
      BY DEF WalkInv
    <3>3. \A e \in edges : e[1] = current => e[2] \in seen'
      <4> SUFFICES ASSUME NEW e \in edges, e[1] = current PROVE e[2] \in seen'
        OBVIOUS
      <4>1. <<current, e[2]>> \in edges /\ e[2] \in Groups
        BY <3>2
      <4> QED
        BY <4>1 DEF Visit, Unseen
    <3>4. \A e \in edges : e[1] \in seen' \ queue' => e[2] \in seen'
      <4> SUFFICES ASSUME NEW e \in edges, e[1] \in seen', e[1] \notin queue' PROVE e[2] \in seen'
        OBVIOUS
      <4>1. CASE e[1] = current
        BY <4>1, <3>3
      <4>2. CASE e[1] /= current
        <5>1. e[1] \in seen \ queue
          BY <4>2 DEF Visit
        <5> QED
          BY <5>1 DEF WalkInv, Visit
      <4> QED
        BY <4>1, <4>2
    <3>5. ASSUME NEW g \in Unseen(current) PROVE g \in EffectivePrincipals(edges, Self)
      <4>1. g \in Principals /\ <<current, g>> \in edges
        BY <3>1 DEF Unseen
      <4>2. current \in EffectivePrincipals(edges, Self)
        BY DEF WalkInv, Visit
      <4>3. ASSUME NEW S \in SUBSET Principals, Self \in S, \A e \in edges : e[1] \in S => e[2] \in S
            PROVE  g \in S
        <5>1. current \in S
          BY <4>2, <4>3 DEF EffectivePrincipals
        <5> QED
          BY <4>1, <4>3, <5>1
      <4> QED
        BY <4>1, <4>3 DEF EffectivePrincipals
    <3>6. seen' \subseteq EffectivePrincipals(edges, Self)
      BY <3>5 DEF WalkInv, Visit
    <3> QED
      BY <3>1, <3>4, <3>6 DEF WalkInv, Visit
  <2> QED
    BY <2>1, <2>2
<1> QED
  BY <1>1, <1>2, PTL DEF Spec

\* When effectivePrincipals returns, on any graph and with any cycle, it returns
\* exactly the principals reachable from the one asked about.
THEOREM ReturnsReachable == Spec => []WalkExact
<1>1. WalkInv => WalkExact
  <2> SUFFICES ASSUME WalkInv, queue = {} PROVE seen = EffectivePrincipals(edges, Self)
    BY DEF WalkExact
  <2>1. \A e \in edges : e[1] \in seen => e[2] \in seen
    BY DEF WalkInv
  <2>2. EffectivePrincipals(edges, Self) \subseteq seen
    BY <2>1 DEF WalkInv, EffectivePrincipals
  <2> QED
    BY <2>2 DEF WalkInv
<1> QED
  BY <1>1, WalkInvariant, PTL

=============================================================================
