------------------------------ MODULE MCOffice ------------------------------
(* Every part on an instance of its own: two or three requests at a time. *)
EXTENDS Office, TLC

CONSTANTS ana, bia, carla,               \* who works
          i1, i2, v1, v2,                \* promises and reviews
          q1, q2, q3, m1, m2, m3,        \* requests about accounts, posts and readings of the chat
          l1, l2, l3, c1,                \* requests about leads, a contact
          o1, o2, o3, t1, t2, t3, k1,          \* deliveries, texts of alerts, an outage
          e1, e2, e3                     \* edits

\* Three requests about accounts at a time, of kinds that meet.
Together(a, b, c) == q1 :> a @@ q2 :> b @@ q3 :> c
MCPlans == {Together("password", "reset-password", "none"), Together("set-active", "set-role", "none"),
            Together("sync", "set-role", "none"), Together("forgot", "forgot", "dismiss-reset"),
            Together("login", "login", "forgot"), Together("create", "create", "none"),
            Together("logout", "password", "login")}

\* An outage and its end, and a text in an unknown format.
MCKeyOfText == t1 :> k1 @@ t2 :> k1 @@ t3 :> UnknownKey

\* An invoice entered long after it was due, and one due the day it is issued.
MCDues == {-40, 0}
=============================================================================
