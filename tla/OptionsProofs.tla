------------------------------- MODULE OptionsProofs -------------------------------
(* Proofs about Options, for all durations.                                         *)
EXTENDS Options, TLAPS

\* What is not yet decided is as the user gave it, and what is decided is the outcome of
\* the user's options.
Inv ==
    /\ given \in OptionsOf(Int)
    /\ result \in {"unset", "rejected", "accepted"}
    /\ result \in {"unset", "rejected"} => options = given
    /\ result = "rejected" => ~ validate(withDefaults(given))
    /\ result = "accepted" => options = withDefaults(given) /\ validate(options)

LEMMA DefaultTypes ==
    ASSUME NEW o \in OptionsOf(Int)
    PROVE  withDefaults(o) \in OptionsOf(Int)
BY DurationsAssumption DEF OptionsOf, withDefaults, Default, Third

\* Defaults are set once.
LEMMA DefaultsIdempotent ==
    ASSUME NEW o \in OptionsOf(Int)
    PROVE  withDefaults(withDefaults(o)) = withDefaults(o)
BY DurationsAssumption DEF OptionsOf, withDefaults, Default, Third

THEOREM OptionsInvariant == Spec => []Inv
<1>1. Init => Inv
  BY DurationsAssumption DEF Init, Inv, OptionsOf
<1>2. Inv /\ [Next]_vars => Inv'
  <2> SUFFICES ASSUME Inv, [Next]_vars PROVE Inv'
    OBVIOUS
  <2>1. CASE SetDefaultsAndValidate
    <3>1. given' = given /\ given \in OptionsOf(Int)  BY <2>1 DEF SetDefaultsAndValidate, Inv
    <3>2. withDefaults(options) = withDefaults(given)
      BY <3>1, DefaultsIdempotent DEF Inv
    <3>3. CASE validate(withDefaults(options))
      BY <2>1, <3>1, <3>2, <3>3 DEF SetDefaultsAndValidate, Inv
    <3>4. CASE ~ validate(withDefaults(options))
      <4>1. options' = options /\ result' = "rejected"  BY <2>1, <3>4 DEF SetDefaultsAndValidate
      <4>2. result # "accepted"
        <5> SUFFICES ASSUME result = "accepted" PROVE FALSE
          OBVIOUS
        <5>1. options = withDefaults(given) /\ validate(options)  BY DEF Inv
        <5> QED  BY <3>2, <3>4, <5>1
      <4> QED  BY <3>1, <3>2, <3>4, <4>1, <4>2 DEF Inv
    <3> QED  BY <3>3, <3>4
  <2>2. CASE UNCHANGED vars  BY <2>2 DEF vars, Inv
  <2> QED  BY <2>1, <2>2 DEF Next
<1> QED  BY <1>1, <1>2, PTL DEF Spec

\* Whatever a user gives that is not negative, the manager runs only with intervals that
\* the rotation can work with.
THEOREM AcceptedWork == Spec => []AcceptedOptionsWork
<1>1. Inv => AcceptedOptionsWork
  <2> SUFFICES ASSUME Inv, result = "accepted", NotNegative(given)
               PROVE  /\ options.CARotateInterval > 0
                      /\ options.CAOverlapInterval \in 0..(options.CARotateInterval - 1)
                      /\ options.CertRotateInterval \in 1..options.CARotateInterval
                      /\ options.CertOverlapInterval \in 0..(options.CertRotateInterval - 1)
                      /\ withDefaults(options) = options
    BY DEF AcceptedOptionsWork
  <2>1. given \in OptionsOf(Int) /\ options = withDefaults(given) /\ validate(options)  BY DEF Inv
  <2>2. options \in OptionsOf(Int) /\ withDefaults(options) = options
    BY <2>1, DefaultTypes, DefaultsIdempotent
  <2>3. /\ options.CARotateInterval >= 0 /\ options.CAOverlapInterval >= 0
        /\ options.CertRotateInterval >= 0 /\ options.CertOverlapInterval >= 0
    BY <2>1, DurationsAssumption DEF NotNegative, withDefaults, Default, Third, OptionsOf
  <2> QED  BY <2>1, <2>2, <2>3 DEF validate, OptionsOf
<1> QED  BY <1>1, OptionsInvariant, PTL

\* Whatever interval the CA is given, defaulting the rest rejects only what no choice of
\* the rest could save.
THEOREM NeverSpoil == Spec => []DefaultsNeverSpoil
<1>1. Inv => DefaultsNeverSpoil
  <2> SUFFICES ASSUME Inv, result = "rejected", NotNegative(given), given.CARotateInterval > 0,
                      NEW o \in OptionsOf(Durations), Completes(o, given), validate(o)
               PROVE  FALSE
    BY DEF DefaultsNeverSpoil
  <2>1. given \in OptionsOf(Int) /\ ~ validate(withDefaults(given))  BY DEF Inv
  <2>2. o \in OptionsOf(Int)  BY DurationsAssumption DEF OptionsOf
  <2> DEFINE g == given
             w == withDefaults(given)
  <2>3. w.CARotateInterval = g.CARotateInterval /\ g.CARotateInterval = o.CARotateInterval
    BY <2>1, <2>2 DEF withDefaults, Default, Third, Completes, OptionsOf
  <2>4. w.CAOverlapInterval < w.CARotateInterval
    BY <2>1, <2>2, <2>3 DEF withDefaults, Default, Third, Completes, OptionsOf, validate
  <2>5. w.CertRotateInterval \in Int /\ w.CertRotateInterval > 0
        /\ o.CertRotateInterval <= w.CertRotateInterval
        /\ w.CertRotateInterval <= w.CARotateInterval
    BY <2>1, <2>2, <2>3 DEF withDefaults, Default, Third, Completes, OptionsOf, validate, NotNegative
  <2>6. w.CertOverlapInterval < w.CertRotateInterval
    BY <2>1, <2>2, <2>5 DEF withDefaults, Default, Third, Completes, OptionsOf, validate, NotNegative
  <2> QED  BY <2>1, <2>4, <2>5, <2>6 DEF validate
<1> QED  BY <1>1, OptionsInvariant, PTL
====
