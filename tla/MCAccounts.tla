----------------------------- MODULE MCAccounts -----------------------------
(***************************************************************************)
(* Instances of Accounts: two clients (a browser with two tabs, or two     *)
(* people with one address), one email and up to two logins.               *)
(***************************************************************************)
EXTENDS Accounts

CONSTANTS tab, otherTab, alice, firstLogin, secondLogin

MCClients == {tab, otherTab}
MCEmails == {alice}
MCSessions == {firstLogin, secondLogin}
=============================================================================
