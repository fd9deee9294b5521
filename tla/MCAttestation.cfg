SPECIFICATION Spec
CONSTANTS
  Profile = {"default", "extra"}
  plain = plain
  bare = bare
  upper = upper
  Image = {plain, bare, upper}
  Uppercase = {upper}
  Nil = Nil
  Content <- MCContent
  ImageProfiles <- MCImageProfiles
  Settings <- MCSettings
  MaxBytes = 6
  MaxEdits = 3
  MaxInstances = 1
  MaxRestarts = 1
CHECK_DEADLOCK FALSE
INVARIANTS UntouchedIsAttestable VerifiedIsTrue LaunchedTogether IssuedVerifies
