SPECIFICATION ProcessSpec
CONSTANTS
  CellBase = 256
  MaxImage = 50
  MaxDlls = 4
  MaxSymbols = 5
  MaxNames = 4
  MaxString = 3
  StackSize = 28
  PageSize = 8
  Programs <- MCPrograms
  Libraries <- MCLibraries
  StackBases = {0, 18, 60}
  Arguments <- MCArguments
  NewBases = {8, 300}
  Things = {"Stdin", "Stdout", "Stderr", "File"}
  Stdin = "Stdin"
  Stdout = "Stdout"
  Stderr = "Stderr"
  Free = "Free"
  MaxFd = 4
  Files = {"File"}
  Contents <- MCContents
  Input <- MCInput
  NSig = 4
  SigKill = 3
  SigStop = 4
  Me = 7
  MaxCalls <- MCMaxCalls
  GuestProgram <- Runner
  GuestStart <- MCStart
  Fds <- MCFds
  Buffers = {18, 22, 44}
  Vectors = {17, 24, 30, 43}
  PollArrays = {17, 34, 37, 43}
  Cell = {0, 18, 22, 28, 29}
  Sets = {18, 22}
  Counts = {0, 1, 2}
INVARIANTS RebaseExact
PROPERTIES LoadedExact PreparedExact RefinesDescriptors TransferExact ErrorsChangeNothing
  StateReadsBack SignalsExact
