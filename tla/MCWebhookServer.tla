------------------------------- MODULE MCWebhookServer -------------------------------
(* Instances of WebhookServer for TLC: a service with a webhook.                    *)
EXTENDS WebhookServer

CONSTANTS s1, w1

OneService == {s1}
OneBundle == {w1}
OneBundleOfService == [b \in OneBundle |-> s1]
====
