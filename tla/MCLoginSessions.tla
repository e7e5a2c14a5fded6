---------------------------- MODULE MCLoginSessions ----------------------------
(* Small instances of LoginSessions; all ids are interchangeable.             *)
EXTENDS LoginSessions, TLC

Interchangeable ==
  UNION {Permutations(Accounts), Permutations(Emails), Permutations(Passwords),
         Permutations(Sessions), Permutations(Requests)}

=============================================================================
