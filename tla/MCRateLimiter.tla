--------------------------- MODULE MCRateLimiter ---------------------------
(***************************************************************************)
(* Two clients behind different IPs log in to one account: each has a      *)
(* counter of its own, with a short window, and both share the account's,  *)
(* with a longer one (the shape of an hour and a day for one user too).    *)
(***************************************************************************)
EXTENDS RateLimiter

CONSTANTS home, office, homeIp, officeIp, account

MCClients == {home, office}
MCBuckets == {homeIp, officeIp, account}

MCRoute == [c \in MCClients |-> IF c = home THEN <<homeIp, account>> ELSE <<officeIp, account>>]
MCLimit == [b \in MCBuckets |-> IF b = account THEN 2 ELSE 1]
MCWindow == [b \in MCBuckets |-> IF b = account THEN 3 ELSE 2]
=============================================================================
