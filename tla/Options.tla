---------------------------------- MODULE Options ----------------------------------
(* chain.Options: the intervals a user gives to certificate.NewManager, where zero  *)
(* means unset, and what SetDefaultsAndValidate makes of them                       *)
(* (pkg/certificate/chain/options.go).                                              *)
EXTENDS Integers

CONSTANTS
    Durations,          \* the durations a user may give
    OneYearDuration

ASSUME DurationsAssumption ==
    /\ Durations \subseteq Int
    /\ OneYearDuration \in Nat \ {0}

VARIABLES
    given,      \* the options as the user gave them
    options,    \* the options as the manager has them
    result      \* of the last SetDefaultsAndValidate

vars == <<given, options, result>>

OptionsOf(D) ==
    [CARotateInterval : D, CAOverlapInterval : D, CertRotateInterval : D, CertOverlapInterval : D]

Default(value, default) == IF value = 0 THEN default ELSE value

\* Division by three, towards zero.
Third(d) == IF d >= 0 THEN d \div 3 ELSE -((-d) \div 3)

\* Mutant: the service certificates default to a year.
withDefaultYears(o) ==
    LET caRotate   == Default(o.CARotateInterval, OneYearDuration)
        certRotate == Default(o.CertRotateInterval, OneYearDuration)
    IN  [CARotateInterval    |-> caRotate,
         CAOverlapInterval   |-> Default(o.CAOverlapInterval, Third(caRotate)),
         CertRotateInterval  |-> certRotate,
         CertOverlapInterval |-> Default(o.CertOverlapInterval, Third(certRotate))]

withDefaults(o) ==
    LET caRotate   == Default(o.CARotateInterval, OneYearDuration)
        certRotate == Default(o.CertRotateInterval, caRotate)
    IN  [CARotateInterval    |-> caRotate,
         CAOverlapInterval   |-> Default(o.CAOverlapInterval, Third(caRotate)),
         CertRotateInterval  |-> certRotate,
         CertOverlapInterval |-> Default(o.CertOverlapInterval, Third(certRotate))]

\* Mutant: an overlap may be as long as the interval.
validateLongOverlap(o) ==
    /\ o.CAOverlapInterval <= o.CARotateInterval
    /\ o.CertRotateInterval <= o.CARotateInterval
    /\ o.CertOverlapInterval <= o.CertRotateInterval

validate(o) ==
    /\ o.CAOverlapInterval < o.CARotateInterval
    /\ o.CertRotateInterval <= o.CARotateInterval
    /\ o.CertOverlapInterval < o.CertRotateInterval

Init ==
    /\ given \in OptionsOf(Durations)
    /\ options = given
    /\ result = "unset"

\* NewManager refuses options that do not validate and leaves them as they were.
SetDefaultsAndValidate ==
    /\ IF validate(withDefaults(options))
         THEN options' = withDefaults(options) /\ result' = "accepted"
         ELSE options' = options /\ result' = "rejected"
    /\ UNCHANGED given

Next == SetDefaultsAndValidate

Spec == Init /\ [][Next]_vars

------------------------------------------------------------------------------------
NotNegative(o) ==
    /\ o.CARotateInterval >= 0 /\ o.CAOverlapInterval >= 0
    /\ o.CertRotateInterval >= 0 /\ o.CertOverlapInterval >= 0

\* Of options that are not negative NewManager accepts only what the rotation can work
\* with: certificates that live, are replaced before they expire, and a CA that lives as
\* long as what it issues. Calling it again changes nothing.
AcceptedOptionsWork ==
    result = "accepted" /\ NotNegative(given)
        => /\ options.CARotateInterval > 0
           /\ options.CAOverlapInterval \in 0..(options.CARotateInterval - 1)
           /\ options.CertRotateInterval \in 1..options.CARotateInterval
           /\ options.CertOverlapInterval \in 0..(options.CertRotateInterval - 1)
           /\ withDefaults(options) = options

\* o sets what g sets and any of the rest.
Completes(o, g) ==
    /\ g.CARotateInterval \in {0, o.CARotateInterval}
    /\ g.CAOverlapInterval \in {0, o.CAOverlapInterval}
    /\ g.CertRotateInterval \in {0, o.CertRotateInterval}
    /\ g.CertOverlapInterval \in {0, o.CertOverlapInterval}

\* The defaults do not spoil what the user sets: once the CA's interval is set, options
\* are rejected only if no choice of the unset ones validates.
DefaultsNeverSpoil ==
    result = "rejected" /\ NotNegative(given) /\ given.CARotateInterval > 0
        => \A o \in OptionsOf(Durations) : Completes(o, given) => ~ validate(o)
====
