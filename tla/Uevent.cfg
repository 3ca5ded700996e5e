SPECIFICATION Spec
CONSTANTS
  BufferSize = 5
  HOTPLUG_NUM_ENVP = 3
  Letters = {"a"}
  MaxMessage = 6
INVARIANTS PrintedIsMessage
