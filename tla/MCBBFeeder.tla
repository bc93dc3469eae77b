----------------------------- MODULE MCBBFeeder -----------------------------
EXTENDS BBFeeder

\* Every line kind the feeder tells apart.
MCLineKinds == AllKinds
====
