\* Two users of one credential: three token pairs from two logins.
SPECIFICATION Spec
CONSTANTS
  Users = {u1, u2}
  NoUser = NoUser
  MaxTokens = 3
  MaxAttempts = 2
SYMMETRY Symmetry
INVARIANTS
  NeverSentTwice
  ValidIsUnspent
  LogoutSticks
PROPERTY
  SignInHeals
