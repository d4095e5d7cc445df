SPECIFICATION Spec
CONSTANT Components = {"ice"}
INVARIANT SelectedAgree
PROPERTY CredentialsAgree
CHECK_DEADLOCK FALSE
