---------------------------------- MODULE MCManager ----------------------------------
(* Instances of Manager for TLC.                                                    *)
EXTENDS Manager, TLC

CONSTANTS s1, s2, w1, w2, c1, c2

\* One configuration with a webhook.
OneService == {s1}
OneBundle == {w1}
OneBundleOfService == w1 :> s1
OneConfig == {c1}
OneConfigOfBundle == w1 :> c1
OneServiceSecrets == {CASecret, s1}

OneManifest == {{w1}}
NoObjects == {}

\* Two configurations, each with a webhook of its own service.
TwoServices == {s1, s2}
TwoBundles == {w1, w2}
TwoBundlesOfServices == (w1 :> s1) @@ (w2 :> s2)
TwoConfigs == {c1, c2}
TwoConfigsOfBundles == (w1 :> c1) @@ (w2 :> c2)
AllOfTwo == {CASecret, s1, s2, c1, c2}
AllSecretsOfTwo == {CASecret, s1, s2}
NoneOrAllWebhooks == {{}, {w1, w2}}

\* One configuration with two webhooks of the same service.
TwoBundlesOfService == (w1 :> s1) @@ (w2 :> s1)
OneConfigOfBundles == (w1 :> c1) @@ (w2 :> c1)
====
