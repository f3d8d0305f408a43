----------------------------- MODULE SharePool -----------------------------
(***************************************************************************)
(* What a vault promises the holders of its VRT, whatever its fees, its    *)
(* delegations and its epochs do: a pool of assets divided into shares     *)
(* that starts at par, issues shares for at most their value, and redeems  *)
(* them for at most their value.  Every rounding favours the pool.         *)
(***************************************************************************)
EXTENDS Integers

VARIABLES shares, assets

Init == shares \in Nat \ {0} /\ assets = shares

(* Assets come in; the new shares are worth no more than those assets.     *)
Issue ==
  /\ shares' \in Nat /\ assets' \in Nat
  /\ shares' >= shares /\ assets' >= assets
  /\ (shares' - shares) * assets <= (assets' - assets) * shares

(* Shares go; the assets paid out are worth no more than those shares.     *)
Redeem ==
  /\ shares' \in Nat /\ assets' \in Nat
  /\ shares' <= shares /\ assets' <= assets
  /\ (assets - assets') * shares <= (shares - shares') * assets

Next == Issue \/ Redeem

Spec == Init /\ [][Next]_<<shares, assets>>
=============================================================================
