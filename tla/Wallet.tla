------------------------------- MODULE Wallet -------------------------------
(* The wallet of held grants (crates/ce-iam/src/wallet.rs): wallet.json maps *)
(* labels to tokens.  Each `wallet` command is a process that reads the      *)
(* file, changes its copy and replaces the file by way of a temporary of its *)
(* own (atomic_write_json); it may stop, or its write may fail, before the   *)
(* rename.                                                                   *)
(*                                                                           *)
(* Data.  A token is fit when it is within the byte limit and decodes to a   *)
(* chain, a label when it is neither blank nor too long.                     *)
EXTENDS FiniteSets, Naturals

CONSTANTS
    Shells,      \* where commands are run, one at a time in each
    Labels, UnfitLabel,
    HeldTokens, UnfitToken,
    NoToken,     \* no entry under a label
    MaxEntries   \* MAX_WALLET_ENTRIES

VARIABLES
    wallet,   \* wallet.json (a missing file is the empty wallet)
    shell,    \* shell[s]: the command that runs there, and its copy of the wallet
    kept      \* history: kept[l] is what the last finished command about l left there

walletVars == <<wallet, shell, kept>>

NoWallet == [l \in Labels |-> NoToken]
Prompt == [step |-> "prompt", label |-> UnfitLabel, copy |-> NoWallet]

Entries(w) == {l \in Labels : w[l] # NoToken}

(* Mutant: a wallet that cannot be read is taken for an empty one. *)
OpenDefaulting(s) ==
    /\ shell[s].step = "prompt"
    /\ \E w \in {wallet, NoWallet} :
           shell' = [shell EXCEPT ![s] = [Prompt EXCEPT !.step = "opened", !.copy = w]]
    /\ UNCHANGED <<wallet, kept>>

wallet_open(s) ==
    /\ shell[s].step = "prompt"
    /\ shell' = [shell EXCEPT ![s] = [Prompt EXCEPT !.step = "opened", !.copy = wallet]]
    /\ UNCHANGED <<wallet, kept>>

(* The temporary is written; any check that fails ends the command. *)
Saving(s, l, w) ==
    /\ shell' = [shell EXCEPT ![s] = [step |-> "saving", label |-> l, copy |-> w]]
    /\ UNCHANGED <<wallet, kept>>

add(s, l, t) ==
    /\ shell[s].step = "opened"
    /\ l # UnfitLabel /\ t # UnfitToken
    /\ shell[s].copy[l] = NoToken
    /\ Cardinality(Entries(shell[s].copy)) < MaxEntries
    /\ Saving(s, l, [shell[s].copy EXCEPT ![l] = t])

(* `wallet rm` of a label that is not there saves nothing. *)
remove(s, l) ==
    /\ shell[s].step = "opened"
    /\ l # UnfitLabel
    /\ shell[s].copy[l] # NoToken
    /\ Saving(s, l, [shell[s].copy EXCEPT ![l] = NoToken])

(* The rename; the command reports its success. *)
wallet_rename(s) ==
    /\ shell[s].step = "saving"
    /\ wallet' = shell[s].copy
    /\ kept' = [kept EXCEPT ![shell[s].label] = shell[s].copy[shell[s].label]]
    /\ shell' = [shell EXCEPT ![s] = Prompt]

(* A refused command, a failing write, a command that was killed. *)
wallet_fail(s) ==
    /\ shell[s].step # "prompt"
    /\ shell' = [shell EXCEPT ![s] = Prompt]
    /\ UNCHANGED <<wallet, kept>>

WalletInit ==
    /\ wallet = NoWallet /\ kept = NoWallet
    /\ shell = [s \in Shells |-> Prompt]

WalletNext ==
    \E s \in Shells :
        \/ wallet_open(s) \/ wallet_rename(s) \/ wallet_fail(s)
        \/ \E l \in Labels \cup {UnfitLabel} :
            \/ remove(s, l)
            \/ \E t \in HeldTokens \cup {UnfitToken} : add(s, l, t)

WalletSpec == WalletInit /\ [][WalletNext]_walletVars
-----------------------------------------------------------------------------
(* Properties *)

(* While one command runs at a time the file holds, under every label, the
   token that was stored there last and not removed since: an `add` or a `rm`
   that is killed, whose write fails, or that is about another label loses
   nothing and brings nothing back.  Commands that run at once have no such
   guarantee, the later rename undoes the earlier one. *)
StoredUntilRemoved == wallet = kept
=============================================================================
