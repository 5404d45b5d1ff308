\* Control flow of the constructs the VM gives Python's meaning, interrupted
\* by pika_vm_exit at any instruction.
SPECIFICATION Spec
CONSTANTS
  Families <- Programs
  MaxDepth = 3
  Admit = {}
PROPERTIES PySpec StopsPromptly
