----------------------------- MODULE MC_Startup -----------------------------
(* A small instance of Startup for TLC. *)
EXTENDS Startup

FileNames == {"vault.db", "audit.db", "config.db", "auth.db"}

Holding(version, repositories) ==
    [Empty EXCEPT !.version = version,
                  !.tables = [r \in Repositories |->
                                 IF r \in repositories THEN "ours" ELSE "missing"]]

Absent == [Empty EXCEPT !.kind = "absent"]
Fresh == [f \in FileNames |-> Absent]
Lab == [Fresh EXCEPT !["vault.db"] = Holding(1, {"vault"}),
                     !["auth.db"] = Holding(1, {"users"}),
                     !["config.db"] = Holding(0, {"policies", "targets", "accounts"})]

\* A new directory, a provisioned lab, and labs with one file otherwise.
SomeDisks ==
    {Fresh, Lab}
    \cup {[Lab EXCEPT ![f] = d] :
            f \in FileNames,
            d \in {Empty, [Empty EXCEPT !.version = 2], [Empty EXCEPT !.kind = "link"],
                   [Empty EXCEPT !.kind = "dangling"]}}
    \cup {[Lab EXCEPT !["vault.db"] = Holding(0, {"vault"})],
          [Lab EXCEPT !["vault.db"].tables["vault"] = "foreign"],
          [Lab EXCEPT !["vault.db"].tables["vault"] = "foreign", !["vault.db"].version = 0],
          [Lab EXCEPT !["vault.db"].tables["vault"] = "lookalike", !["vault.db"].version = 0],
          [Lab EXCEPT !["audit.db"] = [Holding(2, {}) EXCEPT !.tables["audit"] = "lookalike"]],
          [Lab EXCEPT !["auth.db"].tables["users"] = "lookalike"],
          [Lab EXCEPT !["config.db"].tables["policies"] = "lookalike"],
          [Lab EXCEPT !["config.db"].tables["targets"] = "foreign"],
          [Lab EXCEPT !["auth.db"].mode = "broad"],
          [Lab EXCEPT !["audit.db"].kind = "garbage"]}

Usual == [vault |-> "vault.db", audit |-> "audit.db", config |-> "config.db",
          auth |-> "auth.db"]
Distinct == [vault |-> "k1", audit |-> "k2"]

\* Every command on the runtime; validate also with two roles in one file, with
\* the files of two roles exchanged, and with equal or unusable keys.
SomeSettings ==
    {[command |-> c, path |-> Usual, keys |-> Distinct] : c \in DOMAIN Constructors}
    \cup {[command |-> "validate", path |-> [Usual EXCEPT !["config"] = "vault.db"],
           keys |-> Distinct],
          [command |-> "validate", keys |-> Distinct,
           path |-> [Usual EXCEPT !["vault"] = "audit.db", !["audit"] = "vault.db"]]}
    \cup {[command |-> "validate", path |-> Usual, keys |-> [Distinct EXCEPT !["audit"] = k]] :
            k \in {"k1", "invalid"}}
=============================================================================
